---- MODULE Spec2Model ----
(***************************************************************************)
(* Session lifecycle of the live-stream transcription gateway.             *)
(*                                                                         *)
(* The model follows asyncio's cooperative scheduling: one coroutine runs  *)
(* at a time (running), from one suspension point to the next; coroutines  *)
(* that were woken wait in the loop's FIFO queue of callbacks (ready).     *)
(* A step of the running coroutine is one labelled block of its code; no   *)
(* other coroutine moves while running is set, so the blocks between two   *)
(* suspension points are atomic exactly as in the program.                 *)
(*                                                                         *)
(* Processes: 0 is the lifespan shutdown (cleanup_all), 1..MaxCalls are    *)
(* HTTP handlers (start_transcription / stop_transcription), and           *)
(* MaxCalls+c is the background task _run_transcription spawned by         *)
(* handler c.  The session_id (a fresh uuid4) created by handler c is      *)
(* modelled by the number c.                                               *)
(*                                                                         *)
(* Spec lets a client send any MaxRequests requests and the server shut    *)
(* down; SpecScripted replays the five requests of Script.                 *)
(* SpecSubscribers is the broadcast side (subscriber queues of SSE and     *)
(* WebSocket clients), SpecChunk one ChunkBuffer with its periodic flush.  *)
(* SpecClient is one SonioxClient under any sequence of calls,             *)
(* SpecPipeline one TranscriptionService with its pump task, and           *)
(* SpecExtractor one AudioExtractor with its ffmpeg child, and SpecFormat   *)
(* the formatting of the provider's token events into segments.           *)
(***************************************************************************)
EXTENDS Integers, Sequences, FiniteSets, TLC

\* ---------------------------------------------------------------- bounds
\* handler slots; requests an arbitrary client sends; streams; largest cap
MaxCalls == 5
MaxRequests == 3
NumStreams == 2
MaxCap == 2

Calls == 1..MaxCalls
Streams == 1..NumStreams
ShutdownProc == 0
TaskOf(c) == MaxCalls + c
SidOf(t) == t - MaxCalls
Tasks == {TaskOf(c) : c \in Calls}
Procs == {ShutdownProc} \cup Calls \cup Tasks
NoProc == -1
\* a unique_id that does not match ^[a-zA-Z0-9_-]+$
BadId == 0

VARIABLES
    max_concurrent,   \* StreamSessionManager.max_concurrent
    active_sessions,  \* StreamSessionManager.active_sessions
    session_tasks,    \* StreamSessionManager.session_tasks
    session_clients,  \* keys of StreamSessionManager.session_clients
    lock_owner,       \* StreamSessionManager._lock: holder
    lock_waiters,     \* StreamSessionManager._lock: FIFO of waiters
    buffers,          \* ChunkBufferManager._buffers: stream -> session_id of its buffer
    buf_owner,        \* ChunkBufferManager._lock: holder
    buf_waiters,      \* ChunkBufferManager._lock: FIFO of waiters
    ready,            \* the event loop's FIFO of scheduled callbacks
    running,          \* the coroutine that is executing, or NoProc
    pc,               \* position of every process
    uid,              \* the unique_id every process works on
    awaiting,         \* the task a remove_session call awaits
    must_cancel,      \* Task._must_cancel: a CancelledError is pending
    kind,             \* what an HTTP handler is: "none", "start" or "stop"
    resp,             \* HTTP status returned by a handler, 0 while none
    todo,             \* cleanup_all: the unique_ids still to remove
    own_end,          \* history: the tasks whose pipeline ended on its own
    session_queues,   \* StreamSessionManager.session_queues: stream -> list of queues
    queue,            \* the items of every subscriber's asyncio.Queue
    broadcasting,     \* broadcast_segment: the put it is suspended at, per stream
    sub_pc,           \* position of every subscriber (SSE or WebSocket handler)
    sub_uid,          \* the unique_id a subscriber asked for
    created,          \* number of sessions created so far (source of session ids)
    produced,         \* history: number of segments broadcast, per stream
    observed,         \* history: the segments a subscriber took from its queue
    sub_sid,          \* history: the session that existed when the queue registered
    reg_at,           \* history: value of produced when the queue registered
    sub_kind,         \* "sse" or "ws" once the connection arrived
    polled,           \* history: a poll was answered by another session than the registered one
    cur_chunk,        \* ChunkBuffer._current_chunk
    cb_running,       \* ChunkBuffer._running
    flush_pc,         \* position of the task _periodic_flush
    flush_cancel,     \* _flush_task.cancel() was called, not yet delivered
    stop_pc,          \* position of the caller of ChunkBuffer.stop
    added,            \* history: number of segments given to add_segment
    sunk,             \* history: the chunks on_chunk_ready was called with
    failed,           \* history: the calls of on_chunk_ready that did not return ok
    dropped,          \* history: the segments of windows closed without a chunk
    websocket,        \* SonioxClient.websocket: "none" or "ws"
    _connected,       \* SonioxClient._connected
    link,             \* the connection to the STT provider, as the network has it
    wire,             \* history: the frames written to the connection, in order
    recv,             \* position of receive_transcriptions
    log,              \* history: the frames the receive loop took, with what it did
    sa_calls,         \* history: number of send_audio calls
    sa_result,        \* history: how the last send_audio call ended
    svc_running,      \* TranscriptionService._running
    o_pc,             \* position of TranscriptionService.start (run by the consumer task)
    o_exc,            \* the exception travelling through start(), or "none"
    o_cancel,         \* the consumer task has a CancelledError pending
    cancels,          \* history: number of times the consumer task was cancelled
    p_pc,             \* position of the pump task _stream_audio
    p_end,            \* how the pump task ended
    p_cancel,         \* the pump task has a CancelledError pending
    child,            \* the extractor's ffmpeg process: "none" or "live"
    chunks,           \* history: number of audio chunks the extractor yielded
    torn,             \* history: what TranscriptionService.stop has torn down
    x_pc,             \* position of AudioExtractor.start
    x_running,        \* AudioExtractor._running
    failures,         \* AudioExtractor._consecutive_failures
    retry_delay,      \* start(): retry_delay, in seconds
    empty_reads,      \* _extract_audio: empty_read_count
    process,          \* AudioExtractor.process: "none", "live", or how it exited
    f_pc,             \* position of TranscriptionService._receive_transcriptions
    f_now,            \* the clock read by datetime.utcnow(), in seconds
    f_start,          \* TranscriptionService._start_time
    f_arrived,        \* history: number of token events received from the client
    f_tokens,         \* the tokens of the last event
    f_segment,        \* what _format_transcription returned for them
    emitted           \* history: id and stream_time of the segments yielded, in order

mgrVars == <<active_sessions, session_tasks, session_clients>>
lockVars == <<lock_owner, lock_waiters>>
bufVars == <<buffers, buf_owner, buf_waiters>>
callVars == <<kind, resp, own_end>>
\* the state of one SonioxClient and of its connection
clientVars == <<websocket, _connected, link, wire, recv, log, sa_calls, sa_result>>
\* the state of one TranscriptionService with its pump
pipeVars == <<svc_running, o_pc, o_exc, o_cancel, cancels, p_pc, p_end,
              p_cancel, child, chunks, torn>>
\* the state of one AudioExtractor and of its child
extractorVars == <<x_pc, x_running, failures, retry_delay, empty_reads, process>>
\* the state of the formatting of token events
formatVars == <<f_pc, f_now, f_start, f_arrived, f_tokens, f_segment, emitted>>
sttVars == <<clientVars, pipeVars, extractorVars, formatVars>>
vars == <<max_concurrent, active_sessions, session_tasks, session_clients,
          lock_owner, lock_waiters, buffers, buf_owner, buf_waiters, ready,
          running, pc, uid, awaiting, must_cancel, kind, resp, todo, own_end,
          session_queues, queue, broadcasting, sub_pc, sub_uid, created,
          produced, observed, sub_sid, reg_at, sub_kind, polled, cur_chunk,
          cb_running,
          flush_pc, flush_cancel, stop_pc, added, sunk, failed, dropped,
          sttVars>>
\* the state of the subscribers
subVars == <<session_queues, queue, broadcasting, sub_pc, sub_uid, created,
             produced, observed, sub_sid, reg_at, sub_kind, polled>>
\* the state of one ChunkBuffer
chunkVars == <<cur_chunk, cb_running, flush_pc, flush_cancel, stop_pc, added,
               sunk, failed, dropped>>
\* what the session lifecycle leaves alone
extVars == <<subVars, chunkVars, sttVars>>
\* the coroutines of the session lifecycle, idle while subscribers are studied
procVars == <<max_concurrent, session_tasks, lockVars, bufVars, ready, running,
              pc, uid, awaiting, must_cancel, callVars, todo>>
\* the manager, its callers, the subscribers and the chunk buffer, idle
\* while one pipeline is studied
lifeVars == <<procVars, active_sessions, session_clients, subVars, chunkVars>>

\* ------------------------------------------------------------- data model
NoSession == [session_id |-> 0, status |-> "none", error |-> FALSE]

StreamSession(sid) == [session_id |-> sid, status |-> "pending", error |-> FALSE]

Terminal == {"stopped", "error"}

SessionCount(sessions) == Cardinality({s \in Streams : sessions[s] # NoSession})

InSeq(x, q) == \E i \in 1..Len(q) : q[i] = x

Remove(q, x) == SelectSeq(q, LAMBDA y : y # x)

validate_unique_id(s) == s \in Streams

get_session(sessions, s) == IF s \in Streams THEN sessions[s] ELSE NoSession

\* asyncio.Lock: free for a newcomer only when unlocked and nobody waits
LockFree(owner, waiters) == owner = NoProc /\ waiters = <<>>

\* asyncio.Lock.release: the lock passes to the first waiter, which is woken
ReleaseOwner(waiters) == IF waiters = <<>> THEN NoProc ELSE Head(waiters)

ReleaseWaiters(waiters) == IF waiters = <<>> THEN <<>> ELSE Tail(waiters)

ReleaseWake(waiters) == IF waiters = <<>> THEN <<>> ELSE <<Head(waiters)>>

update_session_status(sessions, s, status, err) ==
    IF sessions[s] # NoSession
    THEN [sessions EXCEPT ![s] = [session_id |-> @.session_id,
                                  status |-> status,
                                  error |-> (err \/ @.error)]]
    ELSE sessions

\* ------------------------------------------------------------ subscribers
\* subscriber connections; segments one pipeline yields; sessions created
MaxSubs == 2
MaxSegments == 3
MaxSessions == 2

\* a subscriber h owns the asyncio.Queue h that register_queue creates for it
Handles == 1..MaxSubs

NoSegment == [uid |-> 0, sid |-> 0, n |-> 0]

\* the n-th segment broadcast for stream s, yielded by the pipeline of session sid
Segment(s, sid, n) == [uid |-> s, sid |-> sid, n |-> n]

Idle == [pos |-> 0, seg |-> NoSegment]

\* no queue is registered, nothing was broadcast
SubscribersInit ==
    /\ session_queues = [s \in Streams |-> <<>>]
    /\ queue = [h \in Handles |-> <<>>]
    /\ broadcasting = [s \in Streams |-> Idle]
    /\ sub_pc = [h \in Handles |-> "idle"]
    /\ sub_uid = [h \in Handles |-> BadId]
    /\ created = 0
    /\ produced = [s \in Streams |-> 0]
    /\ observed = [h \in Handles |-> <<>>]
    /\ sub_sid = [h \in Handles |-> 0]
    /\ reg_at = [h \in Handles |-> 0]
    /\ sub_kind = [h \in Handles |-> "none"]
    /\ polled = [h \in Handles |-> FALSE]

\* ----------------------------------------------------------- chunk buffer
\* segments a pipeline adds to one buffer
MaxAdds == 4

\* ChunkBuffer._current_chunk is None
NoChunk == [segments |-> <<>>, text |-> <<>>, words |-> <<>>]

\* a buffer that create_buffer has built and started: the window is closed,
\* the task _periodic_flush is in its first sleep
ChunkInit ==
    /\ cur_chunk = NoChunk
    /\ cb_running = TRUE
    /\ flush_pc = "sleep"
    /\ flush_cancel = FALSE
    /\ stop_pc = "idle"
    /\ added = 0
    /\ sunk = <<>>
    /\ failed = {}
    /\ dropped = {}

\* ------------------------------------------------------------- STT client
\* frames a caller may try to write; frames the provider may send
MaxWire == 3
MaxFrames == 3
\* send_audio calls looked at
MaxSends == 2

\* SonioxClient.__init__: no websocket, not connected; nothing was opened,
\* written or received
ClientInit ==
    /\ websocket = "none"
    /\ _connected = FALSE
    /\ link = "unopened"
    /\ wire = <<>>
    /\ recv = "idle"
    /\ log = <<>>
    /\ sa_calls = 0
    /\ sa_result = "none"

\* --------------------------------------------------------------- pipeline
\* audio chunks one extractor yields; cancellations of one consumer task
MaxChunks == 2
MaxCancels == 1

\* TranscriptionService.__init__, start() not yet called: no pump, no child
PipelineInit ==
    /\ svc_running = FALSE
    /\ o_pc = "new"
    /\ o_exc = "none"
    /\ o_cancel = FALSE
    /\ cancels = 0
    /\ p_pc = "none"
    /\ p_end = "none"
    /\ p_cancel = FALSE
    /\ child = "none"
    /\ chunks = 0
    /\ torn = {}

\* -------------------------------------------------------------- extractor
MAX_RETRIES == 5
INITIAL_RETRY_DELAY == 1
MAX_RETRY_DELAY == 30
BACKOFF_MULTIPLIER == 2
max_empty_reads == 10

\* AudioExtractor.__init__
ExtractorInit ==
    /\ x_pc = "new"
    /\ x_running = FALSE
    /\ failures = 0
    /\ retry_delay = INITIAL_RETRY_DELAY
    /\ empty_reads = 0
    /\ process = "none"

\* ----------------------------------------------------------------- format
\* tokens per event, token events and clock ticks looked at
MaxTokens == 2
MaxEvents == 3
MaxClock == 2

\* _format_transcription returned None
None == [segment_id |-> 0, stream_time |-> 0, text |-> <<>>,
         is_final |-> FALSE, words |-> <<>>]

\* TranscriptionService.__init__, start() not yet called
FormatInit ==
    /\ f_pc = "new"
    /\ f_now = 0
    /\ f_start = 0
    /\ f_arrived = 0
    /\ f_tokens = <<>>
    /\ f_segment = None
    /\ emitted = <<>>

\* ---------------------------------------------------------------- initial
Init ==
    /\ max_concurrent \in 1..MaxCap
    /\ active_sessions = [s \in Streams |-> NoSession]
    /\ session_tasks = [s \in Streams |-> NoProc]
    /\ session_clients = {}
    /\ lock_owner = NoProc
    /\ lock_waiters = <<>>
    /\ buffers = [s \in Streams |-> 0]
    /\ buf_owner = NoProc
    /\ buf_waiters = <<>>
    /\ ready = <<>>
    /\ running = NoProc
    /\ pc = [p \in Procs |-> "idle"]
    /\ uid = [p \in Procs |-> BadId]
    /\ awaiting = [p \in Procs |-> NoProc]
    /\ must_cancel = [p \in Procs |-> FALSE]
    /\ kind = [c \in Calls |-> "none"]
    /\ resp = [c \in Calls |-> 0]
    /\ todo = {}
    /\ own_end = {}
    /\ SubscribersInit
    /\ ChunkInit
    /\ ClientInit
    /\ PipelineInit
    /\ ExtractorInit
    /\ FormatInit

\* ------------------------------------------------------------ environment
\* Requests are numbered in the order they arrive.
NextCall(c) == kind[c] = "none" /\ \A b \in Calls : b < c => kind[b] # "none"

\* Five requests to a gateway serving two streams: a start for stream 2,
\* and for stream 1 a start, a stop and two more starts.
Script ==
    << [kind |-> "start", uid |-> 2], [kind |-> "start", uid |-> 1],
       [kind |-> "stop", uid |-> 1], [kind |-> "start", uid |-> 1],
       [kind |-> "start", uid |-> 1] >>

\* POST /transcribe/start arrives: the server schedules the handler.
HttpStart(c, s) ==
    /\ running = NoProc
    /\ pc[ShutdownProc] = "idle"
    /\ NextCall(c)
    /\ kind' = [kind EXCEPT ![c] = "start"]
    /\ uid' = [uid EXCEPT ![c] = s]
    /\ pc' = [pc EXCEPT ![c] = "st_validate"]
    /\ ready' = Append(ready, c)
    /\ UNCHANGED <<max_concurrent, mgrVars, lockVars, bufVars, running,
                   awaiting, must_cancel, resp, todo, own_end>>
    /\ UNCHANGED extVars

\* the c-th request of the script arrives
ScriptedStart(c) ==
    /\ c \in 1..Len(Script) /\ Script[c].kind = "start"
    /\ HttpStart(c, Script[c].uid)

\* POST /transcribe/stop arrives.
HttpStop(c, s) ==
    /\ running = NoProc
    /\ pc[ShutdownProc] = "idle"
    /\ NextCall(c)
    /\ kind' = [kind EXCEPT ![c] = "stop"]
    /\ uid' = [uid EXCEPT ![c] = s]
    /\ pc' = [pc EXCEPT ![c] = "sp_check"]
    /\ ready' = Append(ready, c)
    /\ UNCHANGED <<max_concurrent, mgrVars, lockVars, bufVars, running,
                   awaiting, must_cancel, resp, todo, own_end>>
    /\ UNCHANGED extVars

ScriptedStop(c) ==
    /\ c \in 1..Len(Script) /\ Script[c].kind = "stop"
    /\ HttpStop(c, Script[c].uid)

\* The server shuts down: it has stopped accepting requests and the handlers
\* in flight have returned before the lifespan's shutdown part runs.
BeginShutdown ==
    /\ running = NoProc
    /\ pc[ShutdownProc] = "idle"
    /\ \A c \in Calls : kind[c] = "none" \/ pc[c] = "done"
    /\ pc' = [pc EXCEPT ![ShutdownProc] = "sd_start"]
    /\ ready' = Append(ready, ShutdownProc)
    /\ UNCHANGED <<max_concurrent, mgrVars, lockVars, bufVars, running, uid,
                   awaiting, must_cancel, callVars, todo>>
    /\ UNCHANGED extVars

\* Positions at which a coroutine waits for the outside world: the HLS probe,
\* the STT connect, the next STT frame, the teardown of ffmpeg and of the
\* websocket, and ChunkBuffer.stop().
IOWait == {"st_probe", "connecting", "receiving", "stopping", "rb_stop", "cb_stop"}

\* The awaited I/O completes: the loop schedules the coroutine's wake-up.
IOComplete(p) ==
    /\ running = NoProc
    /\ pc[p] \in IOWait
    /\ ~InSeq(p, ready)
    /\ ready' = Append(ready, p)
    /\ UNCHANGED <<max_concurrent, mgrVars, lockVars, bufVars, running, pc,
                   uid, awaiting, must_cancel, callVars, todo>>
    /\ UNCHANGED extVars

\* The loop runs the next scheduled callback.
Run ==
    /\ running = NoProc
    /\ ready # <<>>
    /\ running' = Head(ready)
    /\ ready' = Tail(ready)
    /\ UNCHANGED <<max_concurrent, mgrVars, lockVars, bufVars, pc, uid,
                   awaiting, must_cancel, callVars, todo>>
    /\ UNCHANGED extVars

\* --------------------------------------------------------- lock plumbing
\* `async with lock` entered by process p: taken at once when free, else p
\* joins the waiters and suspends at `wait`.
Acquire(p, owner, waiters, body, wait) ==
    IF LockFree(owner, waiters)
    THEN [owner |-> p, waiters |-> waiters, pc |-> body, running |-> p]
    ELSE [owner |-> owner, waiters |-> Append(waiters, p), pc |-> wait,
          running |-> NoProc]

\* A handler returns `code` to its client.
Respond(c, code) ==
    /\ resp' = [resp EXCEPT ![c] = code]
    /\ pc' = [pc EXCEPT ![c] = "done"]
    /\ running' = NoProc

\* ------------------------------------------------- StreamSessionManager
\* variant: create_session without its existence check
NeverExists(sessions, s) == FALSE

AlreadyExists(sessions, s) == sessions[s] # NoSession

\* variant: the capacity comparison off by one
OverCapacity(sessions, cap) == SessionCount(sessions) > cap

AtCapacity(sessions, cap) == SessionCount(sessions) >= cap

\* what create_session raises, or "ok"
CreateResult(sessions, s, cap) ==
    IF AlreadyExists(sessions, s) THEN "ValueError"
    ELSE IF AtCapacity(sessions, cap) THEN "RuntimeError"
    ELSE "ok"

\* variant: the capacity check placed after the insertion
InsertsBeforeCapacityCheck(result) == result \in {"ok", "RuntimeError"}

\* the session is inserted after both checks, when neither raised
Inserts(result) == result = "ok"

\* start_transcription's except clauses: RuntimeError -> 503, any other -> 500
StartErrorCode(exception) == IF exception = "RuntimeError" THEN 503 ELSE 500

\* ------------------------------------------------- start_transcription
\* validate_unique_id, then the await of validate_stream_availability
StValidate(c) ==
    /\ running = c /\ pc[c] = "st_validate"
    /\ IF ~validate_unique_id(uid[c])
       THEN Respond(c, 400)
       ELSE /\ pc' = [pc EXCEPT ![c] = "st_probe"]
            /\ running' = NoProc
            /\ resp' = resp
    /\ UNCHANGED <<max_concurrent, mgrVars, lockVars, bufVars, ready, uid,
                   awaiting, must_cancel, kind, todo, own_end>>
    /\ UNCHANGED extVars

\* the probe's answer, then the existence pre-check
StProbe(c) ==
    /\ running = c /\ pc[c] = "st_probe"
    /\ \E is_available \in BOOLEAN :
         IF ~is_available
         THEN Respond(c, 404)
         ELSE IF get_session(active_sessions, uid[c]) # NoSession
         THEN Respond(c, 409)
         ELSE /\ pc' = [pc EXCEPT ![c] = "cs_acquire"]
              /\ UNCHANGED <<running, resp>>
    /\ UNCHANGED <<max_concurrent, mgrVars, lockVars, bufVars, ready, uid,
                   awaiting, must_cancel, kind, todo, own_end>>
    /\ UNCHANGED extVars

\* create_session: async with self._lock
CsAcquire(c) ==
    /\ running = c /\ pc[c] = "cs_acquire"
    /\ LET a == Acquire(c, lock_owner, lock_waiters, "cs_body", "cs_wait")
       IN /\ lock_owner' = a.owner
          /\ lock_waiters' = a.waiters
          /\ pc' = [pc EXCEPT ![c] = a.pc]
          /\ running' = a.running
    /\ UNCHANGED <<max_concurrent, mgrVars, bufVars, ready, uid, awaiting,
                   must_cancel, callVars, todo>>
    /\ UNCHANGED extVars

\* woken with the lock
CsWait(c) ==
    /\ running = c /\ pc[c] = "cs_wait"
    /\ pc' = [pc EXCEPT ![c] = "cs_body"]
    /\ UNCHANGED <<max_concurrent, mgrVars, lockVars, bufVars, ready, running,
                   uid, awaiting, must_cancel, callVars, todo>>
    /\ UNCHANGED extVars

\* the body of create_session, under the lock, and the handler's except
\* clauses when it raises
CsBody(c) ==
    /\ running = c /\ pc[c] = "cs_body"
    /\ lock_owner' = ReleaseOwner(lock_waiters)
    /\ lock_waiters' = ReleaseWaiters(lock_waiters)
    /\ ready' = ready \o ReleaseWake(lock_waiters)
    /\ LET r == CreateResult(active_sessions, uid[c], max_concurrent)
       IN /\ IF Inserts(r)
             THEN /\ active_sessions' =
                         [active_sessions EXCEPT ![uid[c]] = StreamSession(c)]
                  /\ session_clients' = session_clients \cup {uid[c]}
             ELSE UNCHANGED <<active_sessions, session_clients>>
          /\ IF r = "ok"
             THEN /\ pc' = [pc EXCEPT ![c] = "cb_acquire"]
                  /\ UNCHANGED <<running, resp>>
             ELSE Respond(c, StartErrorCode(r))
    /\ UNCHANGED <<max_concurrent, session_tasks, bufVars, uid, awaiting,
                   must_cancel, kind, todo, own_end>>
    /\ UNCHANGED extVars

\* create_buffer: async with self._lock
CbAcquire(c) ==
    /\ running = c /\ pc[c] = "cb_acquire"
    /\ LET a == Acquire(c, buf_owner, buf_waiters, "cb_body", "cb_wait")
       IN /\ buf_owner' = a.owner
          /\ buf_waiters' = a.waiters
          /\ pc' = [pc EXCEPT ![c] = a.pc]
          /\ running' = a.running
    /\ UNCHANGED <<max_concurrent, mgrVars, lockVars, buffers, ready, uid,
                   awaiting, must_cancel, callVars, todo>>
    /\ UNCHANGED extVars

CbWait(c) ==
    /\ running = c /\ pc[c] = "cb_wait"
    /\ pc' = [pc EXCEPT ![c] = "cb_body"]
    /\ UNCHANGED <<max_concurrent, mgrVars, lockVars, bufVars, ready, running,
                   uid, awaiting, must_cancel, callVars, todo>>
    /\ UNCHANGED extVars

\* The body of create_buffer under the lock: an existing buffer of the
\* stream is stopped first (ChunkBuffer.stop() suspends with the lock held);
\* then the new buffer is registered and the lock released, and the handler
\* spawns _run_transcription, attaches the task and returns 200.
CbBody(c) ==
    /\ running = c /\ pc[c] \in {"cb_body", "cb_stop"}
    /\ IF pc[c] = "cb_body" /\ buffers[uid[c]] # 0
       THEN /\ pc' = [pc EXCEPT ![c] = "cb_stop"]
            /\ running' = NoProc
            /\ UNCHANGED <<buffers, buf_owner, buf_waiters, ready,
                           session_tasks, uid, resp>>
       ELSE /\ buffers' = [buffers EXCEPT ![uid[c]] = c]
            /\ buf_owner' = ReleaseOwner(buf_waiters)
            /\ buf_waiters' = ReleaseWaiters(buf_waiters)
            /\ ready' = (ready \o ReleaseWake(buf_waiters)) \o <<TaskOf(c)>>
            /\ session_tasks' = [session_tasks EXCEPT ![uid[c]] = TaskOf(c)]
            /\ uid' = [uid EXCEPT ![TaskOf(c)] = uid[c]]
            /\ pc' = [pc EXCEPT ![c] = "done", ![TaskOf(c)] = "created"]
            /\ resp' = [resp EXCEPT ![c] = 200]
            /\ running' = NoProc
    /\ UNCHANGED <<max_concurrent, active_sessions, session_clients, lockVars,
                   awaiting, must_cancel, kind, todo, own_end>>
    /\ UNCHANGED extVars

\* --------------------------------------------------- stop_transcription
\* the existence check of stop_transcription
SpCheck(c) ==
    /\ running = c /\ pc[c] = "sp_check"
    /\ IF get_session(active_sessions, uid[c]) = NoSession
       THEN Respond(c, 404)
       ELSE /\ pc' = [pc EXCEPT ![c] = "rb_acquire"]
            /\ UNCHANGED <<running, resp>>
    /\ UNCHANGED <<max_concurrent, mgrVars, lockVars, bufVars, ready, uid,
                   awaiting, must_cancel, kind, todo, own_end>>
    /\ UNCHANGED extVars

\* both removals returned without raising
SpOk(c) ==
    /\ running = c /\ pc[c] = "sp_ok"
    /\ Respond(c, 200)
    /\ UNCHANGED <<max_concurrent, mgrVars, lockVars, bufVars, ready, uid,
                   awaiting, must_cancel, kind, todo, own_end>>
    /\ UNCHANGED extVars

\* ------------------------------------- ChunkBufferManager.remove_buffer
\* Called by stop_transcription and by the finally of _run_transcription.
RbAcquire(p) ==
    /\ running = p /\ pc[p] = "rb_acquire"
    /\ LET a == Acquire(p, buf_owner, buf_waiters, "rb_body", "rb_wait")
       IN /\ buf_owner' = a.owner
          /\ buf_waiters' = a.waiters
          /\ pc' = [pc EXCEPT ![p] = a.pc]
          /\ running' = a.running
    /\ UNCHANGED <<max_concurrent, mgrVars, lockVars, buffers, ready, uid,
                   awaiting, must_cancel, callVars, todo>>
    /\ UNCHANGED extVars

RbWait(p) ==
    /\ running = p /\ pc[p] = "rb_wait" /\ ~must_cancel[p]
    /\ pc' = [pc EXCEPT ![p] = "rb_body"]
    /\ UNCHANGED <<max_concurrent, mgrVars, lockVars, bufVars, ready, running,
                   uid, awaiting, must_cancel, callVars, todo>>
    /\ UNCHANGED extVars

\* with a buffer present, ChunkBuffer.stop() suspends under the lock;
\* without one the lock is released and remove_session follows
RbBody(p) ==
    /\ running = p /\ pc[p] = "rb_body"
    /\ IF buffers[uid[p]] # 0
       THEN /\ pc' = [pc EXCEPT ![p] = "rb_stop"]
            /\ running' = NoProc
            /\ UNCHANGED <<buf_owner, buf_waiters, ready>>
       ELSE /\ pc' = [pc EXCEPT ![p] = "rs_acquire"]
            /\ running' = running
            /\ buf_owner' = ReleaseOwner(buf_waiters)
            /\ buf_waiters' = ReleaseWaiters(buf_waiters)
            /\ ready' = ready \o ReleaseWake(buf_waiters)
    /\ UNCHANGED <<max_concurrent, mgrVars, lockVars, buffers, uid, awaiting,
                   must_cancel, callVars, todo>>
    /\ UNCHANGED extVars

\* ChunkBuffer.stop() returned: del self._buffers[stream_id], lock released
RbStop(p) ==
    /\ running = p /\ pc[p] = "rb_stop" /\ ~must_cancel[p]
    /\ buffers' = [buffers EXCEPT ![uid[p]] = 0]
    /\ buf_owner' = ReleaseOwner(buf_waiters)
    /\ buf_waiters' = ReleaseWaiters(buf_waiters)
    /\ ready' = ready \o ReleaseWake(buf_waiters)
    /\ pc' = [pc EXCEPT ![p] = "rs_acquire"]
    /\ UNCHANGED <<max_concurrent, mgrVars, lockVars, running, uid, awaiting,
                   must_cancel, callVars, todo>>
    /\ UNCHANGED extVars

\* ------------------------------- StreamSessionManager.remove_session
\* Called by stop_transcription, by the finally of _run_transcription and
\* by cleanup_all.  Where the caller goes on when remove_session returns:
AfterRemove(p) ==
    IF p \in Calls THEN "sp_ok"
    ELSE IF p \in Tasks THEN "task_exit"
    ELSE "sd_loop"

RsAcquire(p) ==
    /\ running = p /\ pc[p] = "rs_acquire"
    /\ LET a == Acquire(p, lock_owner, lock_waiters, "rs_body", "rs_wait")
       IN /\ lock_owner' = a.owner
          /\ lock_waiters' = a.waiters
          /\ pc' = [pc EXCEPT ![p] = a.pc]
          /\ running' = a.running
    /\ UNCHANGED <<max_concurrent, mgrVars, bufVars, ready, uid, awaiting,
                   must_cancel, callVars, todo>>
    /\ UNCHANGED extVars

RsWait(p) ==
    /\ running = p /\ pc[p] = "rs_wait" /\ ~must_cancel[p]
    /\ pc' = [pc EXCEPT ![p] = "rs_body"]
    /\ UNCHANGED <<max_concurrent, mgrVars, lockVars, bufVars, ready, running,
                   uid, awaiting, must_cancel, callVars, todo>>
    /\ UNCHANGED extVars

\* variant: remove_session without its existence check
RemovesAlways(sessions, s) == TRUE

\* `if unique_id in self.active_sessions`: there is something to remove
Removes(sessions, s) == sessions[s] # NoSession

\* variant: the task is cancelled and not awaited, the caller goes on
NotAwaited(p) == p

\* `await task`: who runs next when p awaits the task it cancelled
Suspended(p) == NoProc

\* the task remove_session has to cancel and await, or NoProc: the entry of
\* session_tasks, when the session exists and the task is not done
TaskToCancel(sessions, tasks, s) ==
    IF Removes(sessions, s) /\ tasks[s] # NoProc /\ pc[tasks[s]] # "done"
    THEN tasks[s]
    ELSE NoProc

\* The body of remove_session under the lock.  task.cancel() schedules the
\* task with a pending CancelledError (a task waiting for a lock leaves the
\* waiters); `await task` then suspends the caller with the lock held.  A
\* task that awaits itself is rescheduled by the loop.
RsBody(p) ==
    /\ running = p /\ pc[p] = "rs_body"
    /\ LET s == uid[p]
           t == TaskToCancel(active_sessions, session_tasks, s)
       IN IF ~Removes(active_sessions, s)
          THEN /\ lock_owner' = ReleaseOwner(lock_waiters)
               /\ lock_waiters' = ReleaseWaiters(lock_waiters)
               /\ ready' = ready \o ReleaseWake(lock_waiters)
               /\ pc' = [pc EXCEPT ![p] = AfterRemove(p)]
               /\ UNCHANGED <<mgrVars, buf_waiters, awaiting, must_cancel,
                              running>>
          ELSE /\ active_sessions' = [active_sessions EXCEPT ![s] = NoSession]
               /\ session_tasks' = [session_tasks EXCEPT ![s] = NoProc]
               /\ IF t = NoProc
                  THEN /\ session_clients' = session_clients \ {s}
                       /\ lock_owner' = ReleaseOwner(lock_waiters)
                       /\ lock_waiters' = ReleaseWaiters(lock_waiters)
                       /\ ready' = ready \o ReleaseWake(lock_waiters)
                       /\ pc' = [pc EXCEPT ![p] = AfterRemove(p)]
                       /\ UNCHANGED <<buf_waiters, awaiting, must_cancel,
                                      running>>
                  ELSE /\ must_cancel' = [must_cancel EXCEPT ![t] = TRUE]
                       /\ buf_waiters' = Remove(buf_waiters, t)
                       /\ lock_waiters' = Remove(lock_waiters, t)
                       /\ ready' = IF InSeq(t, ready) THEN ready
                                   ELSE Append(ready, t)
                       /\ awaiting' = [awaiting EXCEPT ![p] = t]
                       /\ pc' = [pc EXCEPT ![p] = "rs_await"]
                       /\ running' = Suspended(p)
                       /\ UNCHANGED <<lock_owner, session_clients>>
    /\ UNCHANGED <<max_concurrent, buffers, buf_owner, uid, callVars, todo>>
    /\ UNCHANGED extVars

\* `await task` returned or raised CancelledError, which is passed over: the
\* clients entry is dropped and the lock released
RsAwait(p) ==
    /\ running = p /\ pc[p] = "rs_await"
    /\ session_clients' = session_clients \ {uid[p]}
    /\ lock_owner' = ReleaseOwner(lock_waiters)
    /\ lock_waiters' = ReleaseWaiters(lock_waiters)
    /\ ready' = ready \o ReleaseWake(lock_waiters)
    /\ awaiting' = [awaiting EXCEPT ![p] = NoProc]
    /\ must_cancel' = [must_cancel EXCEPT ![p] = FALSE]
    /\ pc' = [pc EXCEPT ![p] = AfterRemove(p)]
    /\ UNCHANGED <<max_concurrent, active_sessions, session_tasks, bufVars,
                   running, uid, callVars, todo>>
    /\ UNCHANGED extVars

\* ------------------------------------------------------------ cleanup_all
SdStart ==
    /\ running = ShutdownProc /\ pc[ShutdownProc] = "sd_start"
    /\ todo' = {s \in Streams : active_sessions[s] # NoSession}
    /\ pc' = [pc EXCEPT ![ShutdownProc] = "sd_loop"]
    /\ UNCHANGED <<max_concurrent, mgrVars, lockVars, bufVars, ready, running,
                   uid, awaiting, must_cancel, callVars>>
    /\ UNCHANGED extVars

SdLoop ==
    /\ running = ShutdownProc /\ pc[ShutdownProc] = "sd_loop"
    /\ IF todo = {}
       THEN /\ pc' = [pc EXCEPT ![ShutdownProc] = "done"]
            /\ running' = NoProc
            /\ UNCHANGED <<uid, todo>>
       ELSE \E s \in todo :
              /\ uid' = [uid EXCEPT ![ShutdownProc] = s]
              /\ todo' = todo \ {s}
              /\ pc' = [pc EXCEPT ![ShutdownProc] = "rs_acquire"]
              /\ running' = running
    /\ UNCHANGED <<max_concurrent, mgrVars, lockVars, bufVars, ready,
                   awaiting, must_cancel, callVars>>
    /\ UNCHANGED extVars

\* ------------------------- _run_transcription / TranscriptionService.start
\* The task's first step: status STARTING, then the await of connect().
TCreated(t) ==
    /\ running = t /\ pc[t] = "created" /\ ~must_cancel[t]
    /\ active_sessions' =
           update_session_status(active_sessions, uid[t], "starting", FALSE)
    /\ pc' = [pc EXCEPT ![t] = "connecting"]
    /\ running' = NoProc
    /\ UNCHANGED <<max_concurrent, session_tasks, session_clients, lockVars,
                   bufVars, ready, uid, awaiting, must_cancel, callVars, todo>>
    /\ UNCHANGED extVars

\* connect() returned: status ACTIVE, the pump is spawned and the receive
\* loop awaits the first frame.  Or connect() raised ConnectionError.
TConnecting(t) ==
    /\ running = t /\ pc[t] = "connecting" /\ ~must_cancel[t]
    /\ \E connected \in BOOLEAN :
         IF connected
         THEN /\ active_sessions' =
                     update_session_status(active_sessions, uid[t], "active", FALSE)
              /\ pc' = [pc EXCEPT ![t] = "receiving"]
              /\ running' = NoProc
              /\ UNCHANGED own_end
         ELSE /\ pc' = [pc EXCEPT ![t] = "t_except_n"]
              /\ own_end' = own_end \cup {t}
              /\ UNCHANGED <<active_sessions, running>>
    /\ UNCHANGED <<max_concurrent, session_tasks, session_clients, lockVars,
                   bufVars, ready, uid, awaiting, must_cancel, kind, resp, todo>>
    /\ UNCHANGED extVars

Frames == {"tokens", "finished", "closed", "error_code"}

\* A frame arrives.  Tokens become a segment that is broadcast and added to
\* the stream's chunk buffer (get_buffer takes the buffer manager's lock).
\* Any other frame ends the receive loop: the inner finally cancels the pump
\* and awaits it.
TReceiving(t) ==
    /\ running = t /\ pc[t] = "receiving" /\ ~must_cancel[t]
    /\ \E frame \in Frames :
         IF frame = "tokens"
         THEN LET a == Acquire(t, buf_owner, buf_waiters, "receiving", "gb_wait")
              IN /\ buf_waiters' = a.waiters
                 /\ pc' = [pc EXCEPT ![t] = a.pc]
                 /\ UNCHANGED <<buf_owner, ready, own_end>>
         ELSE /\ pc' = [pc EXCEPT ![t] =
                     IF frame = "error_code" THEN "await_pump_err" ELSE "await_pump"]
              /\ ready' = Append(ready, t)
              /\ own_end' = own_end \cup {t}
              /\ UNCHANGED <<buf_owner, buf_waiters>>
    /\ running' = NoProc
    /\ UNCHANGED <<max_concurrent, mgrVars, lockVars, buffers, uid, awaiting,
                   must_cancel, kind, resp, todo>>
    /\ UNCHANGED extVars

\* get_buffer got the lock and releases it; add_segment; next frame
TGbWait(t) ==
    /\ running = t /\ pc[t] = "gb_wait" /\ ~must_cancel[t]
    /\ buf_owner' = ReleaseOwner(buf_waiters)
    /\ buf_waiters' = ReleaseWaiters(buf_waiters)
    /\ ready' = ready \o ReleaseWake(buf_waiters)
    /\ pc' = [pc EXCEPT ![t] = "receiving"]
    /\ running' = NoProc
    /\ UNCHANGED <<max_concurrent, mgrVars, lockVars, buffers, uid, awaiting,
                   must_cancel, callVars, todo>>
    /\ UNCHANGED extVars

\* `await audio_task` in the inner finally returned.  A CancelledError (the
\* pump's, or one pending for this task) is passed over; an exception the
\* pump died of, or the one that ended the receive loop, reaches the
\* except clause.
TAwaitPump(t) ==
    /\ running = t /\ pc[t] \in {"await_pump", "await_pump_err"}
    /\ must_cancel' = [must_cancel EXCEPT ![t] = FALSE]
    /\ \E pump_raised \in BOOLEAN :
         pc' = [pc EXCEPT ![t] =
                   IF pc[t] = "await_pump_err" \/ pump_raised
                   THEN "t_except_c" ELSE "t_stop_c"]
    /\ UNCHANGED <<max_concurrent, mgrVars, lockVars, bufVars, ready, running,
                   uid, awaiting, callVars, todo>>
    /\ UNCHANGED extVars

\* except Exception in start(): status ERROR with the message
TExcept(t) ==
    /\ running = t /\ pc[t] \in {"t_except_n", "t_except_c"}
    /\ active_sessions' =
           update_session_status(active_sessions, uid[t], "error", TRUE)
    /\ pc' = [pc EXCEPT ![t] =
                 IF pc[t] = "t_except_c" THEN "t_stop_c" ELSE "t_stop_n"]
    /\ UNCHANGED <<max_concurrent, session_tasks, session_clients, lockVars,
                   bufVars, ready, running, uid, awaiting, must_cancel,
                   callVars, todo>>
    /\ UNCHANGED extVars

\* what TranscriptionService.stop() writes once its teardown is through
StatusAfterStop(sessions, s) == update_session_status(sessions, s, "stopped", FALSE)

\* finally: await self.stop().  After a connect the teardown of ffmpeg and of
\* the websocket suspends; before one there may be nothing to wait for, and
\* stop() goes straight on.
TStop(t) ==
    /\ running = t /\ pc[t] \in {"t_stop_n", "t_stop_c"}
    /\ \E suspends \in (IF pc[t] = "t_stop_c" THEN {TRUE} ELSE BOOLEAN) :
         IF suspends
         THEN /\ pc' = [pc EXCEPT ![t] = "stopping"]
              /\ running' = NoProc
              /\ UNCHANGED active_sessions
         ELSE /\ active_sessions' = StatusAfterStop(active_sessions, uid[t])
              /\ pc' = [pc EXCEPT ![t] = "rb_acquire"]
              /\ UNCHANGED running
    /\ UNCHANGED <<max_concurrent, session_tasks, session_clients, lockVars,
                   bufVars, ready, uid, awaiting, must_cancel, callVars, todo>>
    /\ UNCHANGED extVars

\* the teardown finished; the generator ends and _run_transcription enters
\* its finally
TStopping(t) ==
    /\ running = t /\ pc[t] = "stopping" /\ ~must_cancel[t]
    /\ active_sessions' = StatusAfterStop(active_sessions, uid[t])
    /\ pc' = [pc EXCEPT ![t] = "rb_acquire"]
    /\ UNCHANGED <<max_concurrent, session_tasks, session_clients, lockVars,
                   bufVars, ready, running, uid, awaiting, must_cancel,
                   callVars, todo>>
    /\ UNCHANGED extVars

\* the coroutine returned or raised: the task is done and whoever awaits it
\* is woken
Awaiters(t) == {p \in Procs : pc[p] = "rs_await" /\ awaiting[p] = t /\ p # t}

TaskExit(t) ==
    /\ running = t /\ pc[t] = "task_exit"
    /\ pc' = [pc EXCEPT ![t] = "done"]
    /\ ready' = IF Awaiters(t) = {} THEN ready
                ELSE Append(ready, CHOOSE p \in Awaiters(t) : TRUE)
    /\ running' = NoProc
    /\ UNCHANGED <<max_concurrent, mgrVars, lockVars, bufVars, uid, awaiting,
                   must_cancel, callVars, todo>>
    /\ UNCHANGED extVars

\* --------------------------------------------------------- Task.cancel()
\* The loop resumes a task for which a CancelledError is pending: it is
\* thrown at the await the task is suspended in.
\*   created     the coroutine never starts, no finally runs
\*   connecting  passes `except Exception`; finally: self.stop()
\*   receiving   the inner finally cancels and awaits the pump
\*   gb_wait     raised in the loop body of _run_transcription, whose finally
\*               follows; the generator stays suspended at its yield
\*   stopping    leaves stop() before the STOPPED update
\*   rb_wait, rs_wait   leaves the finally of _run_transcription
\*   rb_stop     ChunkBuffer.stop() passes the error over when it waits for
\*               its flush task, and then returns at once or waits for the
\*               store; raised in the store's await it leaves remove_buffer
\*               before the del
TaskCancelled(t) ==
    /\ running = t /\ must_cancel[t]
    /\ pc[t] \in {"created", "connecting", "receiving", "gb_wait", "stopping",
                  "rb_wait", "rb_stop", "rs_wait"}
    /\ must_cancel' = [must_cancel EXCEPT ![t] = FALSE]
    /\ \E swallowed \in BOOLEAN, suspends \in BOOLEAN :
         LET at == pc[t]
             holds == buf_owner = t
             to == CASE at = "created" -> "task_exit"
                     [] at = "connecting" -> "t_stop_n"
                     [] at = "receiving" -> "await_pump"
                     [] at = "gb_wait" -> "rb_acquire"
                     [] at = "stopping" -> "rb_acquire"
                     [] at = "rb_wait" -> "task_exit"
                     [] at = "rs_wait" -> "task_exit"
                     [] at = "rb_stop" ->
                            IF ~swallowed THEN "task_exit"
                            ELSE IF suspends THEN "rb_stop" ELSE "rs_acquire"
             releases == holds /\ to # "rb_stop"
         IN /\ (at # "rb_stop") => (swallowed /\ suspends)
            /\ (at = "rb_stop" /\ ~swallowed) => suspends
            /\ pc' = [pc EXCEPT ![t] = to]
            /\ buffers' = IF at = "rb_stop" /\ to = "rs_acquire"
                          THEN [buffers EXCEPT ![uid[t]] = 0] ELSE buffers
            /\ buf_owner' = IF releases THEN ReleaseOwner(buf_waiters)
                            ELSE buf_owner
            /\ buf_waiters' = IF releases THEN ReleaseWaiters(buf_waiters)
                              ELSE buf_waiters
            /\ ready' = (IF releases THEN ready \o ReleaseWake(buf_waiters)
                         ELSE ready)
                        \o (IF to = "await_pump" THEN <<t>> ELSE <<>>)
            /\ running' = IF to \in {"await_pump", "rb_stop"} THEN NoProc
                          ELSE running
    /\ UNCHANGED <<max_concurrent, mgrVars, lockVars, uid, awaiting, callVars,
                   todo>>
    /\ UNCHANGED extVars

\* ------------------------------------------------------------------- next
\* what the event loop does, whatever the requests
Loop ==
    \/ \E p \in Procs : IOComplete(p)
    \/ Run
    \/ \E c \in Calls : StValidate(c)
    \/ \E c \in Calls : StProbe(c)
    \/ \E c \in Calls : CsAcquire(c)
    \/ \E c \in Calls : CsWait(c)
    \/ \E c \in Calls : CsBody(c)
    \/ \E c \in Calls : CbAcquire(c)
    \/ \E c \in Calls : CbWait(c)
    \/ \E c \in Calls : CbBody(c)
    \/ \E c \in Calls : SpCheck(c)
    \/ \E c \in Calls : SpOk(c)
    \/ \E p \in Procs : RbAcquire(p)
    \/ \E p \in Procs : RbWait(p)
    \/ \E p \in Procs : RbBody(p)
    \/ \E p \in Procs : RbStop(p)
    \/ \E p \in Procs : RsAcquire(p)
    \/ \E p \in Procs : RsWait(p)
    \/ \E p \in Procs : RsBody(p)
    \/ \E p \in Procs : RsAwait(p)
    \/ \E t \in Tasks : TCreated(t)
    \/ \E t \in Tasks : TConnecting(t)
    \/ \E t \in Tasks : TReceiving(t)
    \/ \E t \in Tasks : TGbWait(t)
    \/ \E t \in Tasks : TAwaitPump(t)
    \/ \E t \in Tasks : TExcept(t)
    \/ \E t \in Tasks : TStop(t)
    \/ \E t \in Tasks : TStopping(t)
    \/ \E t \in Tasks : TaskExit(t)
    \/ \E t \in Tasks : TaskCancelled(t)

\* any MaxRequests requests, and a shutdown
Next ==
    \/ \E c \in 1..MaxRequests, s \in Streams \cup {BadId} : HttpStart(c, s)
    \/ \E c \in 1..MaxRequests, s \in Streams : HttpStop(c, s)
    \/ BeginShutdown
    \/ SdStart
    \/ SdLoop
    \/ Loop

Spec == Init /\ [][Next]_vars

\* the requests of Script, in its order, at any pace
NextScripted ==
    \/ \E c \in Calls : ScriptedStart(c)
    \/ \E c \in Calls : ScriptedStop(c)
    \/ Loop

SpecScripted == Init /\ [][NextScripted]_vars

\* ----------------------------------------------------------- properties
\* The loop has nothing left to run and no I/O is outstanding: whatever has
\* not finished by now never will.
Quiescent ==
    /\ running = NoProc
    /\ ready = <<>>
    /\ \A p \in Procs : pc[p] \notin IOWait

SessionIds(sessions) == {sessions[s].session_id : s \in Streams} \ {0}

\* the handler is in the body of create_session, under the lock
InCreate(c) == running = c /\ pc[c] = "cs_body"

\* C1: the registry holds at most one session per stream: a session in the
\* registry is never replaced by another one, and a create that finds a
\* session for its stream fails and leaves the registry as it was, also
\* when several creates for the stream were waiting for the lock together.
C1_OneSessionPerStream ==
    [][/\ \A s \in Streams :
             (active_sessions[s] # NoSession /\ active_sessions'[s] # NoSession)
                 => active_sessions'[s].session_id = active_sessions[s].session_id
       /\ \A c \in Calls :
             (InCreate(c) /\ active_sessions[uid[c]] # NoSession)
                 => /\ active_sessions' = active_sessions
                    /\ pc'[c] = "done"
                    /\ resp'[c] \notin {0, 200}]_vars

\* two creates for one stream raced: one holds the session, the other failed
C1_Witness ==
    \E c \in Calls, d \in Calls :
        /\ c # d /\ kind[c] = "start" /\ kind[d] = "start" /\ uid[c] = uid[d]
        /\ resp[c] = 500
        /\ active_sessions[uid[c]].session_id = d

\* C2: the number of sessions never exceeds the cap, and a create for a new
\* stream that finds the registry at the cap fails with the capacity error
\* (503) and inserts nothing.
C2_CountWithinCap ==
    /\ [](SessionCount(active_sessions) <= max_concurrent)
    /\ [][\A c \in Calls :
             (/\ InCreate(c)
              /\ active_sessions[uid[c]] = NoSession
              /\ SessionCount(active_sessions) = max_concurrent)
                 => /\ active_sessions' = active_sessions
                    /\ resp'[c] = 503]_vars

\* a create was refused at the cap while another stream's create went through
C2_Witness ==
    \E c \in Calls, d \in Calls :
        /\ resp[c] = 503 /\ resp[d] = 200 /\ uid[c] # uid[d]
        /\ SessionCount(active_sessions) = max_concurrent

\* C3: no state in which remove_session, holding the manager's lock, waits
\* for the pipeline task it cancelled while that task waits for the
\* manager's lock.
C3_NoRemoveWaitsForWaitingPipeline ==
    ~ \E p \in Procs, t \in Tasks :
        /\ p # t
        /\ pc[p] = "rs_await" /\ awaiting[p] = t /\ lock_owner = p
        /\ pc[t] = "rs_wait" /\ InSeq(t, lock_waiters)

\* C4: a stop never hangs and never fails: when nothing is left to run,
\* every stop request has returned, with 200 or with 404.
C4_StopReturns ==
    Quiescent =>
        \A c \in Calls :
            kind[c] = "stop" => (pc[c] = "done" /\ resp[c] \in {200, 404})

\* C5: a removal frees the slot: when nothing is left to run, no create is
\* still waiting while the registry holds fewer sessions than the cap.
C5_SlotReleased ==
    Quiescent =>
        ~ \E c \in Calls :
            /\ kind[c] = "start" /\ pc[c] = "cs_wait"
            /\ SessionCount(active_sessions) < max_concurrent

\* C6: a status of error stays error for as long as the session is in the
\* registry.
C6_ErrorStays ==
    [][\A s \in Streams :
          (/\ active_sessions[s].status = "error"
           /\ active_sessions'[s].session_id = active_sessions[s].session_id)
              => active_sessions'[s].status = "error"]_vars

Rank(status) ==
    CASE status = "pending" -> 0
      [] status = "starting" -> 1
      [] status = "active" -> 2
      [] status = "stopping" -> 3
      [] status \in Terminal -> 4

\* C7: the status of a session never moves backward in the order pending,
\* starting, active, stopping, terminal (stopped or error).
C7_StatusMonotonic ==
    [][\A s \in Streams :
          (/\ active_sessions[s] # NoSession
           /\ active_sessions'[s].session_id = active_sessions[s].session_id)
              => Rank(active_sessions'[s].status) >= Rank(active_sessions[s].status)]_vars

\* C8: a pipeline that ended on its own is removed: when nothing is left to
\* run its task is done, the registry holds neither its session nor its
\* handle nor its chunk buffer, and it does not hold the manager's lock.
C8_SelfTerminatedRemoved ==
    Quiescent =>
        \A t \in own_end :
            /\ pc[t] = "done"
            /\ SidOf(t) \notin SessionIds(active_sessions)
            /\ \A s \in Streams : session_tasks[s] # t /\ buffers[s] # SidOf(t)
            /\ lock_owner # t

\* C9: a start whose create finds a session for its stream answers 409.
C9_DuplicateIs409 ==
    [][\A c \in Calls :
          (InCreate(c) /\ active_sessions[uid[c]] # NoSession)
              => resp'[c] = 409]_vars

ErrorCodes == {400, 404, 409, 500, 503}

\* C10: a start that returned an error created nothing: the registry holds
\* no session, no pipeline handle and no chunk buffer made by that call.
C10_ErrorCreatesNothing ==
    \A c \in Calls :
        (kind[c] = "start" /\ resp[c] \in ErrorCodes)
            => /\ c \notin SessionIds(active_sessions)
               /\ \A s \in Streams : session_tasks[s] # TaskOf(c) /\ buffers[s] # c
               /\ pc[TaskOf(c)] = "idle"

\* a start was refused by create_session, for capacity or for a duplicate
C10_Witness ==
    \E c \in Calls :
        kind[c] = "start" /\ resp[c] \in {500, 503} /\ uid[c] \in Streams

\* C38: every segment the pipeline broadcasts is also added to the chunk
\* buffer of its stream: when get_buffer returns at once after a broadcast,
\* and when it returns after waiting for the buffer manager's lock, the
\* stream has a buffer, and a task that waits for that lock goes on to
\* add_segment and nowhere else.
C38_BroadcastIsAggregated ==
    [][\A t \in Tasks :
          /\ running = t /\ pc[t] = "receiving" /\ pc'[t] = "receiving"
             /\ running' # t
             => buffers[uid[t]] # 0
          /\ pc[t] = "gb_wait" /\ pc'[t] # "gb_wait"
             => pc'[t] = "receiving" /\ buffers[uid[t]] # 0]_vars

\* the pipeline of task t is running: spawned, not yet in its teardown and
\* not cancelled
Streaming_t(t) ==
    pc[t] \in {"created", "connecting", "receiving", "gb_wait"} /\ ~must_cancel[t]

\* C37: every running pipeline belongs to a session of the registry: the
\* registry holds the session the pipeline was spawned for and has this task
\* attached to it, and no two pipelines run for one stream.
C37_NoOrphanPipeline ==
    /\ \A t \in Tasks :
          Streaming_t(t)
              => /\ active_sessions[uid[t]].session_id = SidOf(t)
                 /\ session_tasks[uid[t]] = t
    /\ \A t, u \in Tasks :
          Streaming_t(t) /\ Streaming_t(u) /\ uid[t] = uid[u] => t = u

\* =========================================================== subscribers
\* The broadcast side of StreamSessionManager and its two kinds of
\* subscriber, the SSE generator and the WebSocket handler.  None of
\* register_queue, unregister_queue and broadcast_segment takes the manager
\* lock, and none suspends unless a put has to wait, so each is one step.
\* Sessions come and go in single steps here: what create_session and
\* remove_session do to the registry once they hold the lock.

\* asyncio.Queue() is built without maxsize
maxsize == 0

\* variant: a queue that is full with one item
full_at_one(q) == Len(q) >= 1

\* asyncio.Queue.full
full(q) == IF maxsize <= 0 THEN FALSE ELSE Len(q) >= maxsize

\* variant: the item is put in front of the pending ones
put_front(q, seg) == <<seg>> \o q

\* asyncio.Queue.put_nowait
put_nowait(q, seg) == Append(q, seg)

\* variant: the list is left as it is
list_keep(q, x) == q

\* list.remove: drops the first occurrence of x, nothing when x is not there
list_remove(q, x) ==
    IF InSeq(x, q)
    THEN LET i == CHOOSE k \in 1..Len(q) :
                      q[k] = x /\ \A j \in 1..(k - 1) : q[j] # x
         IN SubSeq(q, 1, i - 1) \o SubSeq(q, i + 1, Len(q))
    ELSE q

register_queue(queues, s, h) == [queues EXCEPT ![s] = Append(@, h)]

unregister_queue(queues, s, h) == [queues EXCEPT ![s] = list_remove(@, h)]

\* The loop of broadcast_segment from the i-th queue of the list on: every
\* put that does not have to wait is done, the first full queue suspends it.
RECURSIVE Deliver(_, _, _, _)
Deliver(list, i, seg, qs) ==
    IF i > Len(list) THEN [queue |-> qs, pos |-> 0]
    ELSE IF full(qs[list[i]]) THEN [queue |-> qs, pos |-> i]
    ELSE Deliver(list, i + 1, seg,
                 [qs EXCEPT ![list[i]] = put_nowait(@, seg)])

\* Connections are numbered in the order they arrive.
NextSub(h) == sub_pc[h] = "idle" /\ \A g \in Handles : g < h => sub_pc[g] # "idle"

\* create_session for stream s, once it holds the lock
CreateSession(s) ==
    /\ created < MaxSessions
    /\ Inserts(CreateResult(active_sessions, s, max_concurrent))
    /\ created' = created + 1
    /\ active_sessions' = [active_sessions EXCEPT ![s] = StreamSession(created + 1)]
    /\ session_clients' = session_clients \cup {s}
    /\ UNCHANGED <<procVars, sttVars, chunkVars, session_queues, queue, broadcasting, sub_pc,
                   sub_uid, produced, observed, sub_sid, reg_at, sub_kind, polled>>

\* remove_session for stream s, once it holds the lock: the entries of
\* active_sessions, session_tasks and session_clients are popped
RemoveSession(s) ==
    /\ active_sessions[s] # NoSession
    /\ active_sessions' = [active_sessions EXCEPT ![s] = NoSession]
    /\ session_clients' = session_clients \ {s}
    /\ UNCHANGED <<procVars, sttVars, subVars, chunkVars>>

\* _run_transcription got a segment from the pipeline of the session of
\* stream s and broadcasts it; or a broadcast that was suspended at a put
\* goes on, the queue having room again
Broadcast(s) ==
    /\ active_sessions[s] # NoSession
    /\ IF broadcasting[s].pos = 0
       THEN /\ produced[s] < MaxSegments
            /\ produced' = [produced EXCEPT ![s] = @ + 1]
            /\ LET seg == Segment(s, active_sessions[s].session_id, produced[s] + 1)
                   d == Deliver(session_queues[s], 1, seg, queue)
               IN /\ queue' = d.queue
                  /\ broadcasting' = [broadcasting EXCEPT ![s] =
                         IF d.pos = 0 THEN Idle ELSE [pos |-> d.pos, seg |-> seg]]
       ELSE /\ broadcasting[s].pos <= Len(session_queues[s])
               => ~full(queue[session_queues[s][broadcasting[s].pos]])
            /\ LET d == Deliver(session_queues[s], broadcasting[s].pos,
                                broadcasting[s].seg, queue)
               IN /\ queue' = d.queue
                  /\ broadcasting' = [broadcasting EXCEPT ![s] =
                         IF d.pos = 0 THEN Idle
                         ELSE [pos |-> d.pos, seg |-> broadcasting[s].seg]]
            /\ UNCHANGED produced
    /\ UNCHANGED <<procVars, sttVars, chunkVars, mgrVars, session_queues, sub_pc, sub_uid, created,
                   observed, sub_sid, reg_at, sub_kind, polled>>

\* what the code of a subscriber does when it calls register_queue
Registers(h, s) ==
    /\ session_queues' = register_queue(session_queues, s, h)
    /\ sub_sid' = [sub_sid EXCEPT ![h] = active_sessions[s].session_id]
    /\ reg_at' = [reg_at EXCEPT ![h] = produced[s]]

\* sse_transcribe up to its StreamingResponse: 400 for a bad unique_id, 404
\* when get_session finds nothing; the generator has not started yet
SseCheck(h, s) ==
    /\ NextSub(h)
    /\ sub_uid' = [sub_uid EXCEPT ![h] = s]
    /\ sub_pc' = [sub_pc EXCEPT ![h] =
           IF ~validate_unique_id(s) \/ get_session(active_sessions, s) = NoSession
           THEN "refused" ELSE "checked"]
    /\ sub_kind' = [sub_kind EXCEPT ![h] = "sse"]
    /\ UNCHANGED <<procVars, sttVars, chunkVars, mgrVars, session_queues, queue, broadcasting,
                   created, produced, observed, sub_sid, reg_at, polled>>

\* event_generator starts: the connected event, then register_queue
SseRegister(h) ==
    /\ sub_pc[h] = "checked"
    /\ Registers(h, sub_uid[h])
    /\ sub_pc' = [sub_pc EXCEPT ![h] = "listening"]
    /\ UNCHANGED <<procVars, sttVars, chunkVars, mgrVars, queue, broadcasting, sub_uid, created,
                   produced, observed, sub_kind, polled>>

\* websocket_transcribe after accept: validation, get_session, add_client
\* and register_queue follow each other without a suspension
WsConnect(h, s) ==
    /\ NextSub(h)
    /\ sub_uid' = [sub_uid EXCEPT ![h] = s]
    /\ IF ~validate_unique_id(s) \/ get_session(active_sessions, s) = NoSession
       THEN /\ sub_pc' = [sub_pc EXCEPT ![h] = "refused"]
            /\ UNCHANGED <<session_queues, sub_sid, reg_at>>
       ELSE /\ sub_pc' = [sub_pc EXCEPT ![h] = "listening"]
            /\ Registers(h, s)
    /\ sub_kind' = [sub_kind EXCEPT ![h] = "ws"]
    /\ UNCHANGED <<procVars, sttVars, chunkVars, mgrVars, queue, broadcasting, created, produced,
                   observed, polled>>

\* queue.get() returns the oldest pending segment, which goes to the client
Consume(h) ==
    /\ sub_pc[h] = "listening"
    /\ queue[h] # <<>>
    /\ observed' = [observed EXCEPT ![h] = Append(@, Head(queue[h]))]
    /\ queue' = [queue EXCEPT ![h] = Tail(@)]
    /\ UNCHANGED <<procVars, sttVars, chunkVars, mgrVars, session_queues, broadcasting, sub_pc,
                   sub_uid, created, produced, sub_sid, reg_at, sub_kind, polled>>

\* the finally of a subscriber (the client went away, or the poll found the
\* session gone): unregister_queue
Unregister(h) ==
    /\ sub_pc[h] = "listening"
    /\ session_queues' = unregister_queue(session_queues, sub_uid[h], h)
    /\ sub_pc' = [sub_pc EXCEPT ![h] = "closed"]
    /\ UNCHANGED <<procVars, sttVars, chunkVars, mgrVars, queue, broadcasting, sub_uid, created,
                   produced, observed, sub_sid, reg_at, sub_kind, polled>>

\* The subscriber looks whether its stream still has a session: the
\* WebSocket handler once a second, the SSE generator when queue.get() timed
\* out after 5 s, that is with nothing pending.  get_session does not
\* suspend.  When it finds nothing the loop ends and the finally
\* unregisters the queue.
Poll(h) ==
    /\ sub_pc[h] = "listening"
    /\ sub_kind[h] = "sse" => queue[h] = <<>>
    /\ LET cur == get_session(active_sessions, sub_uid[h])
       IN IF cur = NoSession
          THEN /\ session_queues' =
                      unregister_queue(session_queues, sub_uid[h], h)
               /\ sub_pc' = [sub_pc EXCEPT ![h] = "closed"]
               /\ UNCHANGED polled
          ELSE /\ polled' = [polled EXCEPT ![h] =
                                  @ \/ cur.session_id # sub_sid[h]]
               /\ UNCHANGED <<session_queues, sub_pc>>
    /\ UNCHANGED <<procVars, sttVars, chunkVars, mgrVars, queue, broadcasting, sub_uid,
                   created, produced, observed, sub_sid, reg_at, sub_kind>>

NextSubscribers ==
    \/ \E s \in Streams : CreateSession(s)
    \/ \E s \in Streams : RemoveSession(s)
    \/ \E s \in Streams : Broadcast(s)
    \/ \E h \in Handles, s \in Streams \cup {BadId} : SseCheck(h, s)
    \/ \E h \in Handles : SseRegister(h)
    \/ \E h \in Handles, s \in Streams \cup {BadId} : WsConnect(h, s)
    \/ \E h \in Handles : Consume(h)
    \/ \E h \in Handles : Unregister(h)
    \/ \E h \in Handles : Poll(h)

SpecSubscribers == Init /\ [][NextSubscribers]_vars

\* -------------------------------------------------- subscriber properties
\* the segments subscriber h was handed so far: taken already, or pending
Received(h) == observed[h] \o queue[h]

\* C11: remove_session drops the subscribers of its stream: when the
\* session of a stream has been removed no queue is registered for the
\* stream any more, and a queue that registered while one session existed
\* is never handed a segment of another session of the same stream.
C11_RemoveDropsSubscribers ==
    /\ [][\A s \in Streams :
            active_sessions[s] # NoSession /\ active_sessions'[s] = NoSession
            => session_queues'[s] = <<>>]_vars
    /\ [](\A h \in Handles : \A i \in 1..Len(Received(h)) :
            sub_sid[h] # 0 => Received(h)[i].sid = sub_sid[h])

\* C12: register_queue for a stream that has no session adds no queue to
\* the broadcast set: a subscriber whose session is missing when it
\* registers (never created, or removed after the caller's existence
\* check) does not become a registered listener.
C12_RegisterNeedsSession ==
    [][\A h \in Handles :
          sub_pc[h] # "listening" /\ sub_pc'[h] = "listening"
          => active_sessions[sub_uid'[h]] # NoSession]_vars

\* the queue h is in the broadcast set of some stream
Registered(h) == \E s \in Streams : InSeq(h, session_queues[s])

\* C13: once unregister_queue has completed for a queue, no broadcast puts
\* a segment on it any more, and the unregistration of one queue leaves
\* every other queue registered as it was.
C13_NoDeliveryAfterUnregister ==
    /\ [][\A h \in Handles : sub_pc[h] = "closed" => queue'[h] = queue[h]]_vars
    /\ [](\A h \in Handles : sub_pc[h] = "closed" => ~Registered(h))
    /\ [][\A h \in Handles :
            sub_pc[h] # "closed" /\ sub_pc'[h] = "closed"
            => \A g \in Handles \ {h} :
                   \A s \in Streams : InSeq(g, session_queues'[s])
                                      <=> InSeq(g, session_queues[s])]_vars

\* a queue was unregistered, and the next segment of its stream went to
\* another queue of the stream that is still registered
C13_Witness ==
    \E h \in Handles, g \in Handles :
        /\ h # g
        /\ sub_pc[h] = "closed" /\ sub_pc[g] = "listening"
        /\ sub_uid[h] = sub_uid[g]
        /\ \E i \in 1..Len(Received(g)) :
              /\ Received(g)[i].n > reg_at[h]
              /\ \A j \in 1..Len(Received(h)) : Received(h)[j] # Received(g)[i]

\* C14: every subscriber queue is bounded: some capacity smaller than the
\* number of segments a pipeline broadcasts bounds the number of segments
\* pending in any queue, whether its subscriber drains it or not.
C14_QueueBounded ==
    \E capacity \in 1..(MaxSegments - 1) :
        \A h \in Handles : Len(queue[h]) <= capacity

\* C15: broadcast_segment never waits for a subscriber: no broadcast is
\* ever suspended at a put, and a broadcast puts its segment at the end of
\* every queue registered for the stream, whatever the other queues hold.
C15_BroadcastNeverBlocks ==
    /\ [](\A s \in Streams : broadcasting[s] = Idle)
    /\ [][\A s \in Streams :
            produced'[s] # produced[s]
            => \A h \in Handles :
                   InSeq(h, session_queues[s])
                   => queue'[h] = Append(queue[h],
                          Segment(s, active_sessions[s].session_id, produced'[s]))]_vars

\* one subscriber never took anything and holds two segments; another one
\* of the same stream took both of them
C15_Witness ==
    \E h \in Handles, g \in Handles :
        /\ sub_pc[h] = "listening" /\ sub_pc[g] = "listening"
        /\ sub_uid[h] = sub_uid[g]
        /\ observed[h] = <<>> /\ Len(queue[h]) >= 2
        /\ Len(observed[g]) >= 2 /\ observed[g] = SubSeq(queue[h], 1, Len(observed[g]))

\* C16: what a subscriber is handed is a subsequence of the segments
\* broadcast for its stream, in the order of production and without
\* duplicates, and holds none of the segments produced before its queue
\* was registered.
C16_OrderedNoReplay ==
    \A h \in Handles :
        LET r == Received(h)
        IN /\ \A i \in 1..Len(r) : r[i].uid = sub_uid[h] /\ r[i].n > reg_at[h]
                                   /\ r[i].n <= produced[sub_uid[h]]
           /\ \A i \in 1..Len(r), j \in 1..Len(r) : i < j => r[i].n < r[j].n

\* a subscriber that registered after a segment was produced has taken two
\* later segments
C16_Witness ==
    \E h \in Handles :
        /\ sub_pc[h] = "listening"
        /\ reg_at[h] >= 1
        /\ Len(observed[h]) >= 2

\* ========================================================== chunk buffer
\* One ChunkBuffer between create_buffer and the end of its stop().  The
\* bodies under ChunkBuffer._lock hold no await, so the lock is never
\* contended and add_segment and the locked part of _flush_current_chunk
\* are single steps; the suspension points are the sleep of the periodic
\* task, the call of on_chunk_ready and stop's await of the flush task.
\* stop() is called by remove_buffer under the manager's lock, which
\* get_buffer needs too: no add_segment starts once stop() has begun.
\*
\* A text is the sequence of its characters.  A segment is numbered by its
\* arrival; its words are stood for by that number.

Blank == " "

\* texts of the segments a pipeline yields: never empty, possibly blank
Texts == { <<"a">>, <<Blank, "b", Blank>>, <<Blank>> }

RECURSIVE lstrip(_)
lstrip(t) == IF t # <<>> /\ Head(t) = Blank THEN lstrip(Tail(t)) ELSE t

RECURSIVE rstrip(_)
rstrip(t) ==
    IF t # <<>> /\ t[Len(t)] = Blank THEN rstrip(SubSeq(t, 1, Len(t) - 1)) ELSE t

\* str.strip
strip(t) == rstrip(lstrip(t))

TranscriptionSegment(n, text, is_final) ==
    [n |-> n, text |-> text, is_final |-> is_final]

\* variant: a partial segment is aggregated like a final one
AggregatesAll(segment) == TRUE

\* add_segment aggregates the text and the words of final segments only
Aggregates(segment) == segment.is_final

\* add_segment under the lock: the window is opened when closed, the segment
\* appended, and the text and words of a final segment aggregated
add_segment(chunk, segment) ==
    [segments |-> Append(chunk.segments, segment),
     text |-> IF ~Aggregates(segment) THEN chunk.text
              ELSE IF chunk.text # <<>>
                   THEN chunk.text \o <<Blank>> \o strip(segment.text)
                   ELSE strip(segment.text),
     words |-> IF Aggregates(segment) THEN Append(chunk.words, segment.n)
               ELSE chunk.words]

\* _flush_current_chunk under the lock: the chunk it takes out of the window;
\* without aggregated text the last segment gives its text and words
TakeChunk(chunk) ==
    IF chunk.text = <<>>
    THEN LET last_segment == chunk.segments[Len(chunk.segments)]
         IN [segments |-> chunk.segments,
             text |-> strip(last_segment.text),
             words |-> Append(chunk.words, last_segment.n)]
    ELSE chunk

\* variant: the window keeps the chunk that was taken
KeepsWindow(chunk) == chunk

\* "Reset for next chunk": self._current_chunk = None
ResetWindow(chunk) == NoChunk

\* `if self.on_chunk_ready and chunk.text`: the callback is called
CallsSink(chunk) == chunk.text # <<>>

\* what a call of on_chunk_ready can end with: _save_chunk_to_dynamodb
\* logs a save that reports False; another callback may raise
SinkOutcomes == {"ok", "not_ok", "raised"}

\* variant: an exception of the callback leaves _flush_current_chunk
RaisedPropagates(outcome) == outcome = "raised"

\* `except Exception` around the callback: nothing leaves _flush_current_chunk
Propagates(outcome) == FALSE

\* variant: stop() returns once the flush task is cancelled
NoFinalFlush(chunk) == FALSE

\* stop() ends with `await self._flush_current_chunk()`; the flush returns
\* at once when the window is closed
FinalFlush(chunk) == chunk.segments # <<>>

\* the pipeline yields a segment and _run_transcription adds it
AddSegment(text, is_final) ==
    /\ stop_pc = "idle"
    /\ added < MaxAdds
    /\ added' = added + 1
    /\ cur_chunk' = add_segment(cur_chunk,
                                TranscriptionSegment(added + 1, text, is_final))
    /\ UNCHANGED <<procVars, sttVars, mgrVars, subVars, cb_running, flush_pc,
                   flush_cancel, stop_pc, sunk, failed, dropped>>

\* the arrival numbers of the segments of a chunk
SegmentIds(chunk) == {chunk.segments[i].n : i \in 1..Len(chunk.segments)}

\* where _periodic_flush goes on after a flush: `while self._running`
FlushLoop == IF cb_running THEN "sleep" ELSE "done"

\* asyncio.sleep(chunk_duration) is over: _flush_current_chunk up to the
\* call of on_chunk_ready
FlushTimer ==
    /\ flush_pc = "sleep" /\ ~flush_cancel
    /\ IF cur_chunk.segments = <<>>
       THEN /\ flush_pc' = FlushLoop
            /\ UNCHANGED <<cur_chunk, sunk, dropped>>
       ELSE LET chunk == TakeChunk(cur_chunk)
            IN /\ cur_chunk' = ResetWindow(chunk)
               /\ IF CallsSink(chunk)
                  THEN /\ sunk' = Append(sunk, chunk)
                       /\ flush_pc' = "sink"
                       /\ UNCHANGED dropped
                  ELSE /\ flush_pc' = FlushLoop
                       /\ dropped' = dropped \cup SegmentIds(chunk)
                       /\ UNCHANGED sunk
    /\ UNCHANGED <<procVars, sttVars, mgrVars, subVars, cb_running, flush_cancel,
                   stop_pc, added, failed>>

\* the callback of the periodic flush returns or raises
FlushSinkDone(outcome) ==
    /\ flush_pc = "sink" /\ ~flush_cancel
    /\ failed' = IF outcome = "ok" THEN failed
                 ELSE failed \cup {<<Len(sunk), outcome>>}
    /\ flush_pc' = FlushLoop
    /\ UNCHANGED <<procVars, sttVars, mgrVars, subVars, cur_chunk, cb_running,
                   flush_cancel, stop_pc, added, sunk, dropped>>

\* stop(): _running = False, the flush task is cancelled and awaited
StopBegin ==
    /\ stop_pc = "idle"
    /\ cb_running' = FALSE
    /\ flush_cancel' = TRUE
    /\ stop_pc' = "await_flush"
    /\ UNCHANGED <<procVars, sttVars, mgrVars, subVars, cur_chunk, flush_pc, added,
                   sunk, failed, dropped>>

\* the CancelledError reaches the flush task at its await (the sleep, or
\* the callback, whose save is then abandoned): `except CancelledError: break`
FlushCancelled ==
    /\ flush_cancel
    /\ flush_cancel' = FALSE
    /\ flush_pc' = "done"
    /\ failed' = IF flush_pc = "sink"
                 THEN failed \cup {<<Len(sunk), "cancelled">>}
                 ELSE failed
    /\ UNCHANGED <<procVars, sttVars, mgrVars, subVars, cur_chunk, cb_running, stop_pc,
                   added, sunk, dropped>>

\* stop() goes on when the flush task is done: the final flush, up to the
\* call of on_chunk_ready
StopFlush ==
    /\ stop_pc = "await_flush" /\ flush_pc = "done"
    /\ IF FinalFlush(cur_chunk)
       THEN LET chunk == TakeChunk(cur_chunk)
            IN /\ cur_chunk' = ResetWindow(chunk)
               /\ IF CallsSink(chunk)
                  THEN /\ sunk' = Append(sunk, chunk)
                       /\ stop_pc' = "sink"
                       /\ UNCHANGED dropped
                  ELSE /\ stop_pc' = "done"
                       /\ dropped' = dropped \cup SegmentIds(chunk)
                       /\ UNCHANGED sunk
       ELSE /\ stop_pc' = "done"
            /\ UNCHANGED <<cur_chunk, sunk, dropped>>
    /\ UNCHANGED <<procVars, sttVars, mgrVars, subVars, cb_running, flush_pc,
                   flush_cancel, added, failed>>

\* the callback of the final flush returns or raises; stop() returns, or
\* raises what the flush let through
StopSinkDone(outcome) ==
    /\ stop_pc = "sink"
    /\ failed' = IF outcome = "ok" THEN failed
                 ELSE failed \cup {<<Len(sunk), outcome>>}
    /\ stop_pc' = IF Propagates(outcome) THEN "raised" ELSE "done"
    /\ UNCHANGED <<procVars, sttVars, mgrVars, subVars, cur_chunk, cb_running, flush_pc,
                   flush_cancel, added, sunk, dropped>>

NextChunk ==
    \/ \E text \in Texts, is_final \in BOOLEAN : AddSegment(text, is_final)
    \/ FlushTimer
    \/ \E outcome \in SinkOutcomes : FlushSinkDone(outcome)
    \/ StopBegin
    \/ FlushCancelled
    \/ StopFlush
    \/ \E outcome \in SinkOutcomes : StopSinkDone(outcome)

SpecChunk == Init /\ [][NextChunk]_vars

\* ------------------------------------------------ chunk buffer properties
Finals(segments) == SelectSeq(segments, LAMBDA g : g.is_final)

\* the trimmed texts of the segments, joined by single spaces
RECURSIVE JoinTrimmed(_)
JoinTrimmed(segments) ==
    IF segments = <<>> THEN <<>>
    ELSE IF Len(segments) = 1 THEN strip(segments[1].text)
    ELSE strip(Head(segments).text) \o <<Blank>> \o JoinTrimmed(Tail(segments))

\* the text and the words a chunk of these segments is said to carry
TextOf(segments) ==
    IF Finals(segments) # <<>> THEN JoinTrimmed(Finals(segments))
    ELSE strip(segments[Len(segments)].text)

WordsOf(segments) ==
    IF Finals(segments) # <<>>
    THEN [i \in 1..Len(Finals(segments)) |-> Finals(segments)[i].n]
    ELSE <<segments[Len(segments)].n>>

\* a flush closes the open window in this step
ClosesWindow == cur_chunk.segments # <<>> /\ cur_chunk'.segments = <<>>

\* this step calls on_chunk_ready with one chunk, made of the open window
HandsWindow ==
    /\ Len(sunk') = Len(sunk) + 1
    /\ sunk'[Len(sunk')].segments = cur_chunk.segments
    /\ \A i \in 1..Len(sunk) : sunk'[i] = sunk[i]

\* no segment of the window has a blank text
NonBlank(segments) == \A i \in 1..Len(segments) : strip(segments[i].text) # <<>>

NoSegmentTwice ==
    /\ \A i \in 1..Len(sunk), j \in 1..Len(sunk) :
          i # j => SegmentIds(sunk[i]) \cap SegmentIds(sunk[j]) = {}
    /\ \A i \in 1..Len(sunk) : SegmentIds(sunk[i]) \cap SegmentIds(cur_chunk) = {}

Handed(n) == \E i \in 1..Len(sunk) : n \in SegmentIds(sunk[i])

\* the periodic flusher is gone and nothing is left to flush
Settled == cur_chunk = NoChunk /\ flush_pc = "done" /\ ~flush_cancel

\* stop() cancels the flusher first: once it has begun, only its own final
\* flush, after the flush task is done, takes the window or calls the sink;
\* once it has returned nothing does
StopOrder ==
    /\ [][stop_pc # "idle" /\ (sunk' # sunk \/ cur_chunk' # cur_chunk)
          => flush_pc = "done" /\ stop_pc = "await_flush"]_vars
    /\ [][stop_pc = "done" => UNCHANGED <<sunk, cur_chunk, flush_pc>>]_vars

Failures == {"not_ok", "raised"}

\* C20: a failure of the sink is never propagated: stop() never raises, and
\* the step in which a call of the sink fails leaves the window, the chunks
\* handed over and the buffer as they are (the failed chunk is not put
\* back), the periodic flusher goes back to its sleep, the final flush lets
\* stop() return, and the pipeline can add its next segment.
C20_SinkFailureContained ==
    /\ [](stop_pc # "raised")
    /\ [][(\E o \in Failures : <<Len(sunk), o>> \in failed' \ failed)
          => /\ UNCHANGED <<cur_chunk, sunk, cb_running, added, dropped>>
             /\ flush_pc = "sink" => flush_pc' = "sleep" /\ stop_pc' = "idle"
             /\ stop_pc = "sink" => stop_pc' = "done"
             /\ stop_pc' = "idle" /\ added < MaxAdds
                => ENABLED (\E text \in Texts, is_final \in BOOLEAN :
                                AddSegment(text, is_final))]_vars
    /\ [](\A f \in failed :
            SegmentIds(sunk[f[1]]) \cap SegmentIds(cur_chunk) = {})

\* the sink raised on the first chunk and reported not-ok on the second; the
\* periodic flusher went on and has handed over a third chunk, of a segment
\* added after both failures
C20_Witness ==
    /\ stop_pc = "idle"
    /\ <<1, "raised">> \in failed /\ <<2, "not_ok">> \in failed
    /\ Len(sunk) = 3
    /\ flush_pc = "sink"

\* ----------------------------------------------- cancellation properties
\* task t takes a segment from its pipeline in this step: it broadcasts the
\* segment and asks for the chunk buffer to add it
Emits(t) ==
    /\ running = t /\ pc[t] = "receiving"
    /\ pc'[t] \in {"receiving", "gb_wait"}

\* the callers of remove_session named by the claim: stop_transcription
\* and cleanup_all
Removers == Calls \cup {ShutdownProc}

\* C21: once remove_session, called by stop or by the shutdown, has
\* returned, the pipeline it cancelled has finished for good: its task is
\* done when the call returns, and a task that is done takes no further
\* step, so it broadcasts no segment and adds none to a chunk buffer,
\* wherever it was suspended when it was cancelled.
C21_NoEmitAfterRemove ==
    /\ [][\A p \in Removers :
            pc[p] = "rs_await" /\ pc'[p] # "rs_await"
            => pc[awaiting[p]] = "done"]_vars
    /\ [][\A t \in Tasks :
            pc[t] = "done" => pc'[t] = "done" /\ ~Emits(t)]_vars

\* a remove_session that cancelled the pipeline of its stream and waited
\* for it is about to return
C21_Witness ==
    \E p \in Removers :
        /\ running = p /\ pc[p] = "rs_await"
        /\ awaiting[p] \in Tasks /\ pc[awaiting[p]] = "done"

\* C22: shutdown() returns and leaves nothing behind: once the loop has
\* nothing left to run, a shutdown that was begun has returned, the registry
\* holds no session and every pipeline task has finished.
C22_ShutdownReturns ==
    Quiescent /\ pc[ShutdownProc] # "idle"
    => /\ pc[ShutdownProc] = "done"
       /\ \A s \in Streams : active_sessions[s] = NoSession
       /\ \A t \in Tasks : pc[t] \in {"idle", "done"}

\* C24: remove is idempotent: a remove_session that finds no session for its
\* stream (an earlier remove took it and nothing created one since) changes
\* neither the registry, the task table, the client sets nor the capacity,
\* cancels no task, and returns to its caller.
C24_RemoveIdempotent ==
    [][\A p \in Procs :
          running = p /\ pc[p] = "rs_body"
          /\ active_sessions[uid[p]] = NoSession
          => /\ UNCHANGED <<max_concurrent, mgrVars, must_cancel, awaiting>>
             /\ pc'[p] = AfterRemove(p)]_vars

\* the pipeline's own remove_session runs after a stop of the same stream
\* was answered 200: the second remove finds nothing
C24_Witness ==
    \E t \in Tasks, c \in Calls :
        /\ running = t /\ pc[t] = "rs_body"
        /\ active_sessions[uid[t]] = NoSession
        /\ kind[c] = "stop" /\ uid[c] = uid[t] /\ resp[c] = 200

\* C23: a subscriber outlives its session only until its next poll: no
\* subscriber is still listening after a poll that was answered by a
\* session other than the one that existed when its queue was registered.
C23_SubscriberEndsWithSession ==
    \A h \in Handles : sub_pc[h] = "listening" => ~polled[h]

\* =========================================================== STT client
\* One SonioxClient and its WebSocket connection.  wire is what was written
\* to the connection; link is the connection as the network has it, which
\* the provider can close at any time.  The client keeps two fields only,
\* websocket and _connected.

\* what connect() can meet: the open is refused, the configuration frame
\* cannot be written, or both succeed
ConnectOutcomes == {"refused", "config_failed", "ok"}

\* variant: connect() logs a failure and returns
connect_quiet(outcome, w) ==
    [websocket |-> IF outcome = "refused" THEN "none" ELSE "ws",
     connected |-> outcome = "ok",
     link |-> IF outcome = "refused" THEN "refused"
              ELSE IF outcome = "ok" THEN "open" ELSE "closed",
     wire |-> IF outcome = "ok" THEN Append(w, "config") ELSE w,
     raised |-> FALSE]

\* SonioxClient.connect: websockets.connect, then the configuration frame,
\* then _connected = True; any failure leaves _connected False and raises
\* ConnectionError
connect(outcome, w) ==
    [websocket |-> IF outcome = "refused" THEN "none" ELSE "ws",
     connected |-> outcome = "ok",
     link |-> IF outcome = "refused" THEN "refused"
              ELSE IF outcome = "ok" THEN "open" ELSE "closed",
     wire |-> IF outcome = "ok" THEN Append(w, "config") ELSE w,
     raised |-> outcome # "ok"]

\* `if not self._connected or not self.websocket`
NotConnected(ws, conn) == ~conn \/ ws = "none"

\* SonioxClient.send_audio: RuntimeError("WebSocket not connected") from the
\* guard, else websocket.send, which raises ConnectionClosed on a closed
\* connection
send_audio(ws, conn, l, w) ==
    IF NotConnected(ws, conn) THEN [wire |-> w, result |-> "not_connected"]
    ELSE IF l = "open" THEN [wire |-> Append(w, "audio"), result |-> "sent"]
    ELSE [wire |-> w, result |-> "send_error"]

\* SonioxClient.send_eos: the empty text frame, when connected; an error of
\* websocket.send is logged
send_eos(ws, conn, l, w) ==
    IF conn /\ ws = "ws" /\ l = "open" THEN Append(w, "eos") ELSE w

\* a text frame from the provider: unparseable, JSON that is not an object,
\* or an object with some of error_code, finished and tokens
Message(json, error_code, finished, tokens) ==
    [json |-> json, error_code |-> error_code, finished |-> finished,
     tokens |-> tokens]

Messages ==
    {Message("object", e, f, t) :
         e \in {0, 503}, f \in BOOLEAN, t \in {"absent", "empty", "some"}}
    \cup {Message("invalid", 0, FALSE, "absent"),
          Message("other", 0, FALSE, "absent")}

\* The body of the receive loop for one message: json.loads raises
\* JSONDecodeError on text that is no JSON (continue); data.get on JSON that
\* is not an object raises AttributeError, which leaves the loop through
\* `except Exception: raise`; then error_code, finished, tokens in this order
handle(m) ==
    IF m.json = "invalid" THEN "skip"
    ELSE IF m.json = "other" THEN "raise"
    ELSE IF m.error_code # 0 THEN "raise"
    ELSE IF m.finished THEN "break"
    ELSE IF m.tokens = "some" THEN "yield"
    ELSE "skip"

\* where receive_transcriptions is after a message was handled
AfterMessage(did) ==
    IF did = "raise" THEN "error"
    ELSE IF did = "break" THEN "finished"
    ELSE "receiving"

\* ---- the client driven by any caller, one call at a time
ClConnect(outcome) ==
    /\ link = "unopened"
    /\ LET c == connect(outcome, wire)
       IN /\ websocket' = c.websocket
          /\ _connected' = c.connected
          /\ link' = c.link
          /\ wire' = c.wire
    /\ UNCHANGED <<recv, log, sa_calls, sa_result>>
    /\ UNCHANGED <<lifeVars, pipeVars, extractorVars, formatVars>>

ClSendAudio ==
    /\ sa_calls < MaxSends /\ Len(wire) < MaxWire
    /\ LET r == send_audio(websocket, _connected, link, wire)
       IN /\ wire' = r.wire
          /\ sa_result' = r.result
    /\ sa_calls' = sa_calls + 1
    /\ UNCHANGED <<websocket, _connected, link, recv, log>>
    /\ UNCHANGED <<lifeVars, pipeVars, extractorVars, formatVars>>

ClSendEos ==
    /\ Len(wire) < MaxWire
    /\ wire' = send_eos(websocket, _connected, link, wire)
    /\ UNCHANGED <<websocket, _connected, link, recv, log, sa_calls, sa_result>>
    /\ UNCHANGED <<lifeVars, pipeVars, extractorVars, formatVars>>

\* receive_transcriptions is started; when not connected it raises
\* RuntimeError at once and nothing was received
ClReceive ==
    /\ recv = "idle"
    /\ recv' = IF NotConnected(websocket, _connected) THEN "idle"
               ELSE "receiving"
    /\ UNCHANGED <<websocket, _connected, link, wire, log, sa_calls, sa_result>>
    /\ UNCHANGED <<lifeVars, pipeVars, extractorVars, formatVars>>

\* the provider sends a message and the receive loop handles it
ClMessage(m) ==
    /\ recv = "receiving" /\ link = "open" /\ Len(log) < MaxFrames
    /\ log' = Append(log, [message |-> m, did |-> handle(m)])
    /\ recv' = AfterMessage(handle(m))
    /\ UNCHANGED <<websocket, _connected, link, wire, sa_calls, sa_result>>
    /\ UNCHANGED <<lifeVars, pipeVars, extractorVars, formatVars>>

\* the provider closes the connection, or it breaks
ClPeerClose ==
    /\ link = "open"
    /\ link' = "closed"
    /\ UNCHANGED <<websocket, _connected, wire, recv, log, sa_calls, sa_result>>
    /\ UNCHANGED <<lifeVars, pipeVars, extractorVars, formatVars>>

\* `async for message in self.websocket` raises ConnectionClosed, which ends
\* the reception without an error
ClClosed ==
    /\ recv = "receiving" /\ link = "closed"
    /\ recv' = "closed"
    /\ UNCHANGED <<websocket, _connected, link, wire, log, sa_calls, sa_result>>
    /\ UNCHANGED <<lifeVars, pipeVars, extractorVars, formatVars>>

\* SonioxClient.disconnect: with a websocket, send_eos and close, then both
\* fields are reset; without one, nothing
ClDisconnect ==
    /\ websocket = "ws"
    /\ Len(wire) < MaxWire
    /\ wire' = send_eos(websocket, _connected, link, wire)
    /\ link' = "closed"
    /\ websocket' = "none"
    /\ _connected' = FALSE
    /\ UNCHANGED <<recv, log, sa_calls, sa_result>>
    /\ UNCHANGED <<lifeVars, pipeVars, extractorVars, formatVars>>

NextClient ==
    \/ \E outcome \in ConnectOutcomes : ClConnect(outcome)
    \/ ClSendAudio
    \/ ClSendEos
    \/ ClReceive
    \/ \E m \in Messages : ClMessage(m)
    \/ ClPeerClose
    \/ ClClosed
    \/ ClDisconnect

SpecClient == Init /\ [][NextClient]_vars

\* ------------------------------------------------------ client properties
\* open(streaming): connected, not disconnected, the connection open and the
\* reception not ended
Streaming ==
    /\ _connected /\ websocket = "ws" /\ link = "open"
    /\ recv \in {"idle", "receiving"}

\* C28: a send_audio call made while the client is not in open(streaming)
\* ends with the not-connected error and writes no frame.
C28_SendAudioNeedsStreaming ==
    [][sa_calls' # sa_calls /\ ~Streaming
       => sa_result' = "not_connected" /\ wire' = wire]_vars

\* what the protocol says to do with a message
Classified(m) ==
    IF m.json = "object" /\ m.error_code # 0 THEN "raise"
    ELSE IF m.json = "object" /\ m.finished THEN "break"
    ELSE IF m.json = "object" /\ m.tokens = "some" THEN "yield"
    ELSE "skip"

\* C29: the receive loop does with every message what its shape asks for,
\* in arrival order: error_code ends the reception with an error, finished
\* ends it normally, non-empty tokens are yielded, anything else is
\* skipped, and no message is handled after the one that ended the
\* reception.
C29_ReceiveClassifies ==
    /\ \A i \in 1..Len(log) : log[i].did = Classified(log[i].message)
    /\ \A i \in 1..Len(log) :
           log[i].did \in {"raise", "break"} => i = Len(log)

\* ============================================================== pipeline
\* One TranscriptionService: the generator start(), run by the consumer
\* task _run_transcription, and the pump task _stream_audio, with the
\* SonioxClient above and an extractor that yields chunks until it ends.
\* A task is cancelled by the manager's remove_session; a CancelledError is
\* raised at the await the task is suspended at.  A consumer cancelled in
\* its loop body leaves the generator suspended at its yield; the loop's
\* asynchronous-generator finalizer closes it later.
\* Positions of start(): new, connecting (await connect), receiving (await
\* the next message), yielded (the consumer has a segment), abandoned,
\* await_pump (await audio_task), teardown (stop() begins), stop_ext (await
\* extractor.stop()), disconnect, closing (await websocket.close()), done.

\* the positions at which the consumer task awaits something inside start()
Suspended_o == {"connecting", "receiving", "yielded", "stop_ext", "closing"}

\* a variant that goes on to the teardown without cancelling and awaiting
\* the pump
EndReceive_unawaited(exc) ==
    /\ o_exc' = exc
    /\ o_pc' = "teardown"
    /\ UNCHANGED p_cancel

\* The inner finally of start(): audio_task.cancel(), then `await
\* audio_task`; exc is the exception that left the receive loop, if any.
EndReceive(exc) ==
    /\ o_exc' = exc
    /\ o_pc' = "await_pump"
    /\ p_cancel' = (p_pc # "done")

\* start() is called: _running = True, status STARTING, the extractor and
\* the client are built, connect() is awaited
OStart ==
    /\ o_pc = "new"
    /\ svc_running' = TRUE
    /\ o_pc' = "connecting"
    /\ UNCHANGED <<clientVars, o_exc, o_cancel, cancels, p_pc, p_end,
                   p_cancel, child, chunks, torn>>
    /\ UNCHANGED <<lifeVars, extractorVars, formatVars>>

\* connect() returned: status ACTIVE, the pump task is created.  Or it
\* raised ConnectionError: except Exception sets status ERROR and raises
\* RuntimeError, the finally runs stop().
OConnect(outcome) ==
    /\ o_pc = "connecting" /\ ~o_cancel
    /\ LET c == connect(outcome, wire)
       IN /\ websocket' = c.websocket
          /\ _connected' = c.connected
          /\ link' = c.link
          /\ wire' = c.wire
          /\ IF c.raised
             THEN /\ o_exc' = "error"
                  /\ o_pc' = "teardown"
                  /\ UNCHANGED p_pc
             ELSE /\ p_pc' = "created"
                  /\ o_pc' = "receiving"
                  /\ UNCHANGED o_exc
    /\ UNCHANGED <<recv, log, sa_calls, sa_result, svc_running, o_cancel,
                   cancels, p_end, p_cancel, child, chunks, torn>>
    /\ UNCHANGED <<lifeVars, extractorVars, formatVars>>

\* a message arrives and receive_transcriptions handles it: tokens are
\* yielded up to the consumer, finished and error_code end the loop
OMessage(m) ==
    /\ o_pc = "receiving" /\ ~o_cancel /\ link = "open"
    /\ handle(m) # "skip"
    /\ IF handle(m) = "yield"
       THEN /\ o_pc' = "yielded"
            /\ UNCHANGED <<o_exc, p_cancel>>
       ELSE EndReceive(IF handle(m) = "raise" THEN "error" ELSE "none")
    /\ UNCHANGED <<clientVars, svc_running, o_cancel, cancels, p_pc, p_end,
                   child, chunks, torn>>
    /\ UNCHANGED <<lifeVars, extractorVars, formatVars>>

\* the connection is closed: ConnectionClosed ends the reception normally
OClosed ==
    /\ o_pc = "receiving" /\ ~o_cancel /\ link = "closed"
    /\ EndReceive("none")
    /\ UNCHANGED <<clientVars, svc_running, o_cancel, cancels, p_pc, p_end,
                   child, chunks, torn>>
    /\ UNCHANGED <<lifeVars, extractorVars, formatVars>>

\* the consumer is through with the segment and asks for the next one
ONext ==
    /\ o_pc = "yielded" /\ ~o_cancel
    /\ o_pc' = "receiving"
    /\ UNCHANGED <<clientVars, svc_running, o_exc, o_cancel, cancels, p_pc,
                   p_end, p_cancel, child, chunks, torn>>
    /\ UNCHANGED <<lifeVars, extractorVars, formatVars>>

\* `await audio_task` is over: a CancelledError (the pump's, or one meant
\* for the consumer itself) is passed over, an exception of the pump is
\* raised here and takes the place of what was travelling
OAwaitPump ==
    /\ o_pc = "await_pump" /\ p_pc = "done"
    /\ o_exc' = IF p_end = "exception" THEN "error" ELSE o_exc
    /\ o_cancel' = FALSE
    /\ o_pc' = "teardown"
    /\ UNCHANGED <<clientVars, svc_running, cancels, p_pc, p_end, p_cancel,
                   child, chunks, torn>>
    /\ UNCHANGED <<lifeVars, extractorVars, formatVars>>

\* stop(): _running = False, then extractor.stop(), whose cleanup
\* terminates a live child and awaits its exit
OStop ==
    /\ o_pc = "teardown"
    /\ svc_running' = FALSE
    /\ IF child = "live"
       THEN /\ o_pc' = "stop_ext"
            /\ UNCHANGED torn
       ELSE /\ o_pc' = "disconnect"
            /\ torn' = torn \cup {"extractor"}
    /\ UNCHANGED <<clientVars, o_exc, o_cancel, cancels, p_pc, p_end,
                   p_cancel, child, chunks>>
    /\ UNCHANGED <<lifeVars, extractorVars, formatVars>>

\* the child has exited: cleanup returns
OStopped ==
    /\ o_pc = "stop_ext" /\ ~o_cancel
    /\ child' = "none"
    /\ torn' = torn \cup {"extractor"}
    /\ o_pc' = "disconnect"
    /\ UNCHANGED <<clientVars, svc_running, o_exc, o_cancel, cancels, p_pc,
                   p_end, p_cancel, chunks>>
    /\ UNCHANGED <<lifeVars, extractorVars, formatVars>>

\* disconnect(): with a websocket, send_eos() and then close() is awaited
ODisconnect ==
    /\ o_pc = "disconnect"
    /\ IF websocket = "ws"
       THEN /\ wire' = send_eos(websocket, _connected, link, wire)
            /\ o_pc' = "closing"
            /\ UNCHANGED torn
       ELSE /\ o_pc' = "done"
            /\ torn' = torn \cup {"client"}
            /\ UNCHANGED wire
    /\ UNCHANGED <<websocket, _connected, link, recv, log, sa_calls,
                   sa_result, svc_running, o_exc, o_cancel, cancels, p_pc,
                   p_end, p_cancel, child, chunks>>
    /\ UNCHANGED <<lifeVars, extractorVars, formatVars>>

\* close() returned; the finally of disconnect resets the client, stop()
\* sets status STOPPED and start() is left
ODisconnected ==
    /\ o_pc = "closing" /\ ~o_cancel
    /\ link' = "closed"
    /\ websocket' = "none"
    /\ _connected' = FALSE
    /\ torn' = torn \cup {"client"}
    /\ o_pc' = "done"
    /\ UNCHANGED <<wire, recv, log, sa_calls, sa_result, svc_running, o_exc,
                   o_cancel, cancels, p_pc, p_end, p_cancel, child, chunks>>
    /\ UNCHANGED <<lifeVars, extractorVars, formatVars>>

\* remove_session cancels the consumer task
Cancel ==
    /\ cancels < MaxCancels
    /\ o_pc \notin {"new", "abandoned", "done"}
    /\ ~(o_pc = "await_pump" /\ p_pc = "done")
    /\ o_cancel' = TRUE
    /\ cancels' = cancels + 1
    /\ UNCHANGED <<clientVars, svc_running, o_pc, o_exc, p_pc, p_end,
                   p_cancel, child, chunks, torn>>
    /\ UNCHANGED <<lifeVars, extractorVars, formatVars>>

\* The CancelledError is raised where the consumer task is suspended.
\*   connecting  leaves connect() (it is no Exception), with the websocket
\*               opened or not; the finally of start() runs stop()
\*   receiving   leaves the receive loop through the inner finally
\*   yielded     raised in the consumer's loop body: start() stays at its yield
\*   stop_ext    leaves cleanup(), stop() and start(): no disconnect()
\*   closing     leaves close(); the finally of disconnect resets the
\*               client, which counts as disconnected; leaves start()
OCancelled ==
    /\ o_cancel /\ o_pc \in Suspended_o
    /\ o_cancel' = FALSE
    /\ CASE o_pc = "connecting" ->
              /\ \E ws \in {"none", "ws"} :
                    /\ websocket' = ws
                    /\ link' = IF ws = "ws" THEN "open" ELSE link
              /\ o_exc' = "cancelled"
              /\ o_pc' = "teardown"
              /\ UNCHANGED <<_connected, p_cancel, torn>>
         [] o_pc = "receiving" ->
              /\ EndReceive("cancelled")
              /\ UNCHANGED <<websocket, _connected, link, torn>>
         [] o_pc = "yielded" ->
              /\ o_pc' = "abandoned"
              /\ UNCHANGED <<websocket, _connected, link, o_exc, p_cancel, torn>>
         [] o_pc = "stop_ext" ->
              /\ o_exc' = "cancelled"
              /\ o_pc' = "done"
              /\ UNCHANGED <<websocket, _connected, link, p_cancel, torn>>
         [] o_pc = "closing" ->
              /\ websocket' = "none"
              /\ _connected' = FALSE
              /\ o_exc' = "cancelled"
              /\ o_pc' = "done"
              /\ torn' = torn \cup {"client"}
              /\ UNCHANGED <<link, p_cancel>>
    /\ UNCHANGED <<wire, recv, log, sa_calls, sa_result, svc_running, cancels,
                   p_pc, p_end, child, chunks>>
    /\ UNCHANGED <<lifeVars, extractorVars, formatVars>>

\* the finalizer closes the abandoned generator: GeneratorExit at the yield
OFinalize ==
    /\ o_pc = "abandoned"
    /\ EndReceive("closing")
    /\ UNCHANGED <<clientVars, svc_running, o_cancel, cancels, p_pc, p_end,
                   child, chunks, torn>>
    /\ UNCHANGED <<lifeVars, extractorVars, formatVars>>

\* the pump task runs first: extractor.start() launches the child
PStart ==
    /\ p_pc = "created" /\ ~p_cancel
    /\ child' = "live"
    /\ p_pc' = "reading"
    /\ UNCHANGED <<clientVars, svc_running, o_pc, o_exc, o_cancel, cancels,
                   p_end, p_cancel, chunks, torn>>
    /\ UNCHANGED <<lifeVars, extractorVars, formatVars>>

\* the extractor yields a chunk and the pump sends it; an exception of
\* send_audio ends the pump, the extractor staying where it yielded
PChunk ==
    /\ p_pc = "reading" /\ ~p_cancel /\ svc_running
    /\ chunks < MaxChunks
    /\ chunks' = chunks + 1
    /\ LET r == send_audio(websocket, _connected, link, wire)
       IN /\ wire' = r.wire
          /\ IF r.result = "sent"
             THEN UNCHANGED <<p_pc, p_end>>
             ELSE p_pc' = "done" /\ p_end' = "exception"
    /\ UNCHANGED <<websocket, _connected, link, recv, log, sa_calls,
                   sa_result, svc_running, o_pc, o_exc, o_cancel, cancels,
                   p_cancel, child, torn>>
    /\ UNCHANGED <<lifeVars, extractorVars, formatVars>>

\* the extractor's sequence ends (the stream ended, or the retries are used
\* up) after its own cleanup; the pump sends the sentinel and returns
PEnd ==
    /\ p_pc = "reading" /\ ~p_cancel
    /\ child' = "none"
    /\ wire' = send_eos(websocket, _connected, link, wire)
    /\ p_pc' = "done"
    /\ p_end' = "ok"
    /\ UNCHANGED <<websocket, _connected, link, recv, log, sa_calls,
                   sa_result, svc_running, o_pc, o_exc, o_cancel, cancels,
                   p_cancel, chunks, torn>>
    /\ UNCHANGED <<lifeVars, extractorVars, formatVars>>

\* the pump is cancelled before its first step or while it awaits a chunk:
\* the CancelledError passes through the extractor, whose child stays
PCancelled ==
    /\ p_cancel /\ p_pc \in {"created", "reading"}
    /\ p_pc' = "done"
    /\ p_end' = "cancelled"
    /\ p_cancel' = FALSE
    /\ UNCHANGED <<clientVars, svc_running, o_pc, o_exc, o_cancel, cancels,
                   child, chunks, torn>>
    /\ UNCHANGED <<lifeVars, extractorVars, formatVars>>

\* the provider closes the connection, or it breaks
PeerClose ==
    /\ o_pc \notin {"new", "done"}
    /\ link = "open"
    /\ link' = "closed"
    /\ UNCHANGED <<websocket, _connected, wire, recv, log, sa_calls, sa_result>>
    /\ UNCHANGED <<lifeVars, pipeVars, extractorVars, formatVars>>

NextPipeline ==
    \/ OStart
    \/ \E outcome \in ConnectOutcomes : OConnect(outcome)
    \/ \E m \in Messages : OMessage(m)
    \/ OClosed
    \/ ONext
    \/ OAwaitPump
    \/ OStop
    \/ OStopped
    \/ ODisconnect
    \/ ODisconnected
    \/ Cancel
    \/ OCancelled
    \/ OFinalize
    \/ PStart
    \/ PChunk
    \/ PEnd
    \/ PCancelled
    \/ PeerClose

SpecPipeline == Init /\ [][NextPipeline]_vars

\* ---------------------------------------------------- pipeline properties
\* number of sentinel frames / configuration frames among the frames sent
Count(w, frame) == Cardinality({i \in 1..Len(w) : w[i] = frame})

\* C25: the pump is awaited before the teardown, and the teardown is
\* complete on every exit: stop() runs only once the pump has finished (or
\* was never started), and when start() is left the extractor is stopped
\* and the client is disconnected.
C25_TeardownOnEveryExit ==
    /\ o_pc \in {"teardown", "stop_ext", "disconnect", "closing"}
       => p_pc \in {"none", "done"}
    /\ o_pc = "done" => torn = {"extractor", "client"}

\* C26: at most one end-of-stream sentinel is written to a connection.
C26_OneSentinel == Count(wire, "eos") <= 1

\* C27: the configuration frame is the first frame of the connection and
\* the only one of its kind, and a pump exists only when it was sent.
C27_ConfigFirst ==
    /\ wire # <<>> => wire[1] = "config"
    /\ Count(wire, "config") <= 1
    /\ p_pc # "none" => InSeq("config", wire)

\* the pump has sent audio and the sentinel after the configuration frame
C27_Witness ==
    /\ p_pc = "done" /\ p_end = "ok"
    /\ Len(wire) >= 3 /\ wire[2] = "audio" /\ InSeq("eos", wire)

\* C34: on every exit path the extractor's child has been terminated and
\* awaited: once start() of the pipeline is left, and while the client is
\* being disconnected, no child of the extractor is alive.
C34_ChildGoneOnExit ==
    o_pc \in {"disconnect", "closing", "done"} => child = "none"

\* C39: no audio frame is written to a connection after an end-of-stream
\* sentinel, and the senders take turns: the pump does not exist while
\* connect() writes the configuration, and it has finished (or never
\* existed) when disconnect() writes its sentinel.
C39_NoAudioAfterEos ==
    /\ \A i, j \in 1..Len(wire) : i < j /\ wire[i] = "eos" => wire[j] # "audio"
    /\ o_pc \in {"new", "connecting"} => p_pc = "none"
    /\ o_pc \in {"disconnect", "closing"} => p_pc \in {"none", "done"}

\* the pump sent audio and was cancelled, and disconnect() wrote the sentinel
C39_Witness ==
    /\ p_end = "cancelled" /\ o_pc = "closing"
    /\ InSeq("audio", wire) /\ wire[Len(wire)] = "eos"

\* ============================================================= extractor
\* One AudioExtractor: the generator start() with _extract_audio inside it,
\* driven by the pump, and the ffmpeg child.  process is "live" while
\* returncode is None, else how the child exited.
\* Positions of start(): new, spawn (await create_subprocess_exec), read
\* (await stdout.read), yielded (the pump has the chunk), empty_sleep (the
\* 0.1 s sleep), cleanup_fail (cleanup() in the except), backoff (the retry
\* sleep), cleanup_end (the last cleanup()), done; cancelled when a
\* CancelledError left it; stopped after stop().

Exited == {"exited_0", "exited_1"}

\* the except of start(): one more consecutive failure, then cleanup()
Fails ==
    /\ failures' = failures + 1
    /\ x_pc' = "cleanup_fail"

\* the pump asks for the first chunk: start() runs up to the spawn
XStart ==
    /\ x_pc = "new"
    /\ x_running' = TRUE
    /\ failures' = 0
    /\ retry_delay' = INITIAL_RETRY_DELAY
    /\ x_pc' = "spawn"
    /\ UNCHANGED <<empty_reads, process>>
    /\ UNCHANGED <<lifeVars, clientVars, pipeVars, formatVars>>

\* create_subprocess_exec returned a child, or raised
XSpawn(ok) ==
    /\ x_pc = "spawn"
    /\ IF ok
       THEN /\ process' = "live"
            /\ empty_reads' = 0
            /\ x_pc' = "read"
            /\ UNCHANGED failures
       ELSE /\ Fails
            /\ UNCHANGED <<process, empty_reads>>
    /\ UNCHANGED <<x_running, retry_delay>>
    /\ UNCHANGED <<lifeVars, clientVars, pipeVars, formatVars>>

\* the child exits by itself
XChildExit(status) ==
    /\ process = "live"
    /\ x_pc \in {"read", "yielded", "empty_sleep"}
    /\ process' = status
    /\ UNCHANGED <<x_pc, x_running, failures, retry_delay, empty_reads>>
    /\ UNCHANGED <<lifeVars, clientVars, pipeVars, formatVars>>

\* stdout.read returned bytes: the chunk is yielded
XChunk ==
    /\ x_pc = "read" /\ process = "live"
    /\ empty_reads' = 0
    /\ x_pc' = "yielded"
    /\ UNCHANGED <<x_running, failures, retry_delay, process>>
    /\ UNCHANGED <<lifeVars, clientVars, pipeVars, formatVars>>

\* stdout.read returned nothing (end of file).  Below the threshold the
\* read is repeated; from the threshold on an exited child ends
\* _extract_audio, whatever its status (start() then leaves its loop:
\* "ended gracefully"), and a live child is given 0.1 s.  The count is
\* capped at the threshold here.
XEmpty ==
    /\ x_pc = "read"
    /\ LET n == IF empty_reads < max_empty_reads THEN empty_reads + 1
                ELSE empty_reads
       IN /\ empty_reads' = n
          /\ x_pc' = IF n < max_empty_reads THEN "read"
                     ELSE IF process \in Exited THEN "cleanup_end"
                     ELSE "empty_sleep"
    /\ UNCHANGED <<x_running, failures, retry_delay, process>>
    /\ UNCHANGED <<lifeVars, clientVars, pipeVars, formatVars>>

\* no byte for 30 s: wait_for raises TimeoutError, turned into RuntimeError
XTimeout ==
    /\ x_pc = "read" /\ process = "live"
    /\ Fails
    /\ UNCHANGED <<x_running, retry_delay, empty_reads, process>>
    /\ UNCHANGED <<lifeVars, clientVars, pipeVars, formatVars>>

\* the 0.1 s are over: `continue`
XWake ==
    /\ x_pc = "empty_sleep"
    /\ x_pc' = IF x_running THEN "read" ELSE "cleanup_end"
    /\ UNCHANGED <<x_running, failures, retry_delay, empty_reads, process>>
    /\ UNCHANGED <<lifeVars, clientVars, pipeVars, formatVars>>

\* the pump asks for the next chunk: the read was a success
XResume ==
    /\ x_pc = "yielded"
    /\ failures' = 0
    /\ retry_delay' = INITIAL_RETRY_DELAY
    /\ x_pc' = IF x_running THEN "read" ELSE "cleanup_end"
    /\ UNCHANGED <<x_running, empty_reads, process>>
    /\ UNCHANGED <<lifeVars, clientVars, pipeVars, formatVars>>

\* a variant that gives up one failure later
exhausted_late(n) == n > MAX_RETRIES

\* `if self._consecutive_failures >= self.MAX_RETRIES: break`
exhausted(n) == n >= MAX_RETRIES

\* a variant that leaves the child as it is
cleanup_skipped(p) == p

\* cleanup(): a child that has not exited is terminated, killed after 2 s
\* and awaited; in every case self.process = None
cleanup(p) == "none"

\* cleanup() in the except returned: the child is gone; the retries are
\* used up, or the retry sleep begins
XCleaned ==
    /\ x_pc = "cleanup_fail"
    /\ process' = cleanup(process)
    /\ x_pc' = IF exhausted(failures) THEN "cleanup_end" ELSE "backoff"
    /\ UNCHANGED <<x_running, failures, retry_delay, empty_reads>>
    /\ UNCHANGED <<lifeVars, clientVars, pipeVars, formatVars>>

\* a variant without backoff
same_delay(d) == d

\* retry_delay = min(retry_delay * BACKOFF_MULTIPLIER, MAX_RETRY_DELAY)
next_delay(d) ==
    IF d * BACKOFF_MULTIPLIER < MAX_RETRY_DELAY THEN d * BACKOFF_MULTIPLIER
    ELSE MAX_RETRY_DELAY

\* the retry sleep is over: the delay grows, a new child is started
XBackoff ==
    /\ x_pc = "backoff"
    /\ retry_delay' = next_delay(retry_delay)
    /\ x_pc' = IF x_running THEN "spawn" ELSE "cleanup_end"
    /\ UNCHANGED <<x_running, failures, empty_reads, process>>
    /\ UNCHANGED <<lifeVars, clientVars, pipeVars, formatVars>>

\* the cleanup() after the loop
XEnd ==
    /\ x_pc = "cleanup_end"
    /\ process' = cleanup(process)
    /\ x_pc' = "done"
    /\ UNCHANGED <<x_running, failures, retry_delay, empty_reads>>
    /\ UNCHANGED <<lifeVars, clientVars, pipeVars, formatVars>>

\* the pump is cancelled while start() awaits: the CancelledError is no
\* Exception and there is no finally, start() is left as it stands
XCancelled ==
    /\ x_pc \in {"spawn", "read", "empty_sleep", "cleanup_fail", "backoff",
                 "cleanup_end"}
    /\ x_pc' = "cancelled"
    /\ UNCHANGED <<x_running, failures, retry_delay, empty_reads, process>>
    /\ UNCHANGED <<lifeVars, clientVars, pipeVars, formatVars>>

\* AudioExtractor.stop(), called by TranscriptionService.stop() once the
\* pump is done: _running = False and cleanup()
XStop ==
    /\ x_pc \in {"yielded", "cancelled", "done"}
    /\ x_running' = FALSE
    /\ process' = cleanup(process)
    /\ x_pc' = "stopped"
    /\ UNCHANGED <<failures, retry_delay, empty_reads>>
    /\ UNCHANGED <<lifeVars, clientVars, pipeVars, formatVars>>

NextExtractor ==
    \/ XStart
    \/ \E ok \in BOOLEAN : XSpawn(ok)
    \/ \E status \in Exited : XChildExit(status)
    \/ XChunk
    \/ XEmpty
    \/ XTimeout
    \/ XWake
    \/ XResume
    \/ XCleaned
    \/ XBackoff
    \/ XEnd
    \/ XCancelled
    \/ XStop

SpecExtractor == Init /\ [][NextExtractor]_vars

\* ---------------------------------------------------- extractor properties
\* C30: a child that exited with a nonzero status is a failure: when the
\* read loop is left over such a child, the exit is counted as one more
\* consecutive failure and the child is torn down for a retry.
C30_NonzeroExitRetried ==
    [][x_pc = "read" /\ process = "exited_1"
       /\ x_pc' \notin {"read", "cancelled"}
       => failures' = failures + 1 /\ x_pc' = "cleanup_fail"]_vars

C32_BackoffDelay ==
    /\ retry_delay <= MAX_RETRY_DELAY
    /\ x_pc = "backoff"
       => LET d == 2 ^ (failures - 1)
          IN retry_delay = IF d < MAX_RETRY_DELAY THEN d ELSE MAX_RETRY_DELAY

\* the extractor sleeps 8 s before its fourth retry in a row
C32_Witness ==
    x_pc = "backoff" /\ failures = MAX_RETRIES - 1 /\ retry_delay = 8

\* an empty read has just been counted by the read loop
EmptyRead ==
    /\ x_pc = "read"
    /\ \/ empty_reads' = empty_reads + 1
       \/ /\ empty_reads = max_empty_reads
          /\ x_pc' \in {"empty_sleep", "cleanup_end"}

\* C33: the stream is taken as ended as soon as the child has exited or the
\* count of consecutive empty reads has reached the threshold: an empty
\* read that finds either of the two ends the read loop.
C33_EndsOnExitOrThreshold ==
    [][EmptyRead /\ (process \in Exited \/ empty_reads' >= max_empty_reads)
       => x_pc' = "cleanup_end"]_vars

\* C40: an extractor has at most one child at a time: whenever start() is
\* about to launch a child, or sleeps before doing so, it holds no child;
\* the previous one has been cleaned up and awaited.
C40_OneChild ==
    x_pc \in {"spawn", "backoff"} => process = "none"

\* a child started by a retry is running
C40_Witness ==
    x_pc = "read" /\ process = "live" /\ failures >= 1

\* ================================================================ format
\* One TranscriptionService receiving token events from its client:
\* _receive_transcriptions formats each event and yields the segment, if
\* there is one, before it asks for the next event.  Texts are sequences of
\* characters.  Of a token only text and is_final are kept; the timing,
\* confidence, speaker and language fields are copied into the Word
\* unchanged.  segment_id, a fresh uuid4 in the code, is the ordinal of the
\* source event.  The clock behind datetime.utcnow() is taken as one that is
\* not set back while the session runs.

\* token texts: none (text missing or empty), a word, a word with its space
TokenTexts == { <<>>, <<"a">>, <<Blank, "b">> }

Token(text, is_final) == [text |-> text, is_final |-> is_final]

\* the token lists of an event
TokenLists ==
    UNION {[1..n -> {Token(x, f) : x \in TokenTexts, f \in BOOLEAN}] :
               n \in 0..MaxTokens}

\* Word(text=token_text, ...)
Word(token) == [text |-> token.text]

\* a variant that keeps every token
SkipsNone(token) == FALSE

\* `if not token_text: continue`
Skips(token) == token.text = <<>>

\* the loop over the tokens; acc holds text_parts, is_final and words
RECURSIVE format_loop(_, _)
format_loop(tokens, acc) ==
    IF tokens = <<>> THEN acc
    ELSE LET token == Head(tokens)
         IN IF Skips(token) THEN format_loop(Tail(tokens), acc)
            ELSE format_loop(Tail(tokens),
                     [text_parts |-> Append(acc.text_parts, token.text),
                      is_final |-> acc.is_final \/ token.is_final,
                      words |-> Append(acc.words, Word(token))])

\* "".join(text_parts)
RECURSIVE join(_)
join(text_parts) ==
    IF text_parts = <<>> THEN <<>> ELSE Head(text_parts) \o join(Tail(text_parts))

\* a variant that counts down to the start
time_to_start(now, start) == start - now

\* (datetime.utcnow() - self._start_time).total_seconds()
stream_time(now, start) == now - start

\* TranscriptionService._format_transcription for the tokens of one event
_format_transcription(tokens, id, now, start) ==
    IF tokens = <<>> THEN None
    ELSE LET r == format_loop(tokens, [text_parts |-> <<>>, is_final |-> FALSE,
                                       words |-> <<>>])
         IN IF r.text_parts = <<>> THEN None
            ELSE [segment_id |-> id, stream_time |-> stream_time(now, start),
                  text |-> join(r.text_parts), is_final |-> r.is_final,
                  words |-> r.words]

\* start(): self._start_time = datetime.utcnow(); the reception begins
FStart ==
    /\ f_pc = "new"
    /\ f_start' = f_now
    /\ f_pc' = "receiving"
    /\ UNCHANGED <<f_now, f_arrived, f_tokens, f_segment, emitted>>
    /\ UNCHANGED <<lifeVars, clientVars, pipeVars, extractorVars>>

\* time passes
Tick ==
    /\ f_now < MaxClock
    /\ f_now' = f_now + 1
    /\ UNCHANGED <<f_pc, f_start, f_arrived, f_tokens, f_segment, emitted>>
    /\ UNCHANGED <<lifeVars, clientVars, pipeVars, extractorVars>>

\* the client yields a token event: it is formatted, and `if segment: yield
\* segment`
FResult(tokens) ==
    /\ f_pc = "receiving"
    /\ f_arrived < MaxEvents
    /\ f_arrived' = f_arrived + 1
    /\ f_tokens' = tokens
    /\ LET segment == _format_transcription(tokens, f_arrived + 1, f_now, f_start)
       IN /\ f_segment' = segment
          /\ IF segment = None
             THEN UNCHANGED <<f_pc, emitted>>
             ELSE /\ f_pc' = "yielded"
                  /\ emitted' = Append(emitted,
                                   [segment_id |-> segment.segment_id,
                                    stream_time |-> segment.stream_time])
    /\ UNCHANGED <<f_now, f_start>>
    /\ UNCHANGED <<lifeVars, clientVars, pipeVars, extractorVars>>

\* the consumer is through with the segment and asks for the next one
FNext ==
    /\ f_pc = "yielded"
    /\ f_pc' = "receiving"
    /\ UNCHANGED <<f_now, f_start, f_arrived, f_tokens, f_segment, emitted>>
    /\ UNCHANGED <<lifeVars, clientVars, pipeVars, extractorVars>>

NextFormat ==
    \/ FStart
    \/ Tick
    \/ \E tokens \in TokenLists : FResult(tokens)
    \/ FNext

SpecFormat == Init /\ [][NextFormat]_vars

\* ------------------------------------------------------- format properties
\* the tokens of a list that have a text, in order
NonEmpty(token) == token.text # <<>>

\* the texts of the tokens one after the other, without a separator
RECURSIVE Concat(_)
Concat(tokens) ==
    IF tokens = <<>> THEN <<>> ELSE Head(tokens).text \o Concat(Tail(tokens))

====
